---- MODULE Spec2Model ----
(***************************************************************************)
(* The incremental reconciliation and bulk-load pipeline of vnstock:       *)
(*   util/utility.py            clean_dataframe                            *)
(*   DBInterface/DBInterface.py dump_data_to_db, upsert_data_to_db,        *)
(*                              get_records_with_primary_keys              *)
(*   DataOrchestrator/DataOrchestrator.py                                  *)
(*                              _delete_unnecessary_records_from_df, run   *)
(*                                                                         *)
(* A DataFrame is [columns |-> sequence of names, rows |-> sequence of     *)
(* records over those names].  The store is the PostgreSQL session behind  *)
(* DBInterface._conn: the committed tables, the tables as the open         *)
(* transaction sees them, the session's temporary tables and the           *)
(* transaction status psycopg reports.                                     *)
(***************************************************************************)
EXTENDS Integers, Sequences, FiniteSets, TLC

VARIABLES
    conn,    \* DBInterface._conn and the database behind it
    input,   \* the arguments of the operation under study (drawn in Init)
    last,    \* what the last finished operation was given and what it returned
    run      \* the locals of DataOrchestrator.run and its position

vars == <<conn, input, last, run>>

\* ------------------------------------------------------------------ bounds
MaxRows == 2        \* rows of a DataFrame handed to the filter
MaxPersisted == 2   \* rows the store holds for the ticker of a filter call

\* ----------------------------------------------------------------- helpers
Range(s) == {s[i] : i \in 1..Len(s)}

SeqUpTo(S, n) == UNION {[1..k -> S] : k \in 0..n}

\* position of name c in the column list cols (0 when absent)
IndexOf(cols, c) == IF c \in Range(cols) THEN CHOOSE i \in 1..Len(cols) : cols[i] = c ELSE 0

None == "None"

\* the listing of get_banks_listings(testing=True)
Tickers == {"ACB", "MBB"}

\* --------------------------------------------------------- schema catalog
\* self._db_schema: what get_table_schemas_from_sql returns for schema.sql.
\* Three of the six logical tables of build_dict; balance_sheet,
\* income_statement and ratio have the shape of cash_flow.
db_schema ==
    [company     |-> [columns      |-> <<"ticker", "name">>,
                      primary_keys |-> <<"ticker">>,
                      foreign_keys |-> <<>>],
     cash_flow   |-> [columns      |-> <<"ticker", "year", "quarter", "amount">>,
                      primary_keys |-> <<"ticker", "year", "quarter">>,
                      foreign_keys |-> <<"ticker">>],
     daily_price |-> [columns      |-> <<"ticker", "date", "close">>,
                      primary_keys |-> <<"ticker", "date">>,
                      foreign_keys |-> <<"ticker">>]]

TableNames == DOMAIN db_schema

\* ------------------------------------------------------------ cell values
\* A date cell is <<representation, day>>: "str" is the text "2024-01-0<day>"
\* read back from a CSV file, "date" the datetime.date psycopg returns, and
\* "ts" the pandas Timestamp.
Days == {5, 6}
DfDateCells == {<<rep, d>> : rep \in {"str", "ts"}, d \in Days}
DbDateCells == {<<"date", d>> : d \in Days}

\* a mutant: the cell is left in the representation it came in
to_datetime_as_is(v) == v

\* pd.to_datetime on one cell: every representation becomes a Timestamp
to_datetime(v) == <<"ts", v[2]>>

\* rows a fetched (normalized) table of ticker t can hold
DfRows(table_name, t) ==
    CASE table_name = "company" ->
            {[ticker |-> t, name |-> n] : n \in {"bank", "Bank"}}
      [] table_name = "cash_flow" ->
            {[ticker |-> t, year |-> y, quarter |-> q, amount |-> a] :
                y \in {2023, 2024}, q \in {1, 5}, a \in {30, 100}}
      [] table_name = "daily_price" ->
            {[ticker |-> t, date |-> d, close |-> c] :
                d \in DfDateCells, c \in {10, 11}}

\* rows the store can hold for ticker t
DbRows(table_name, t) ==
    CASE table_name = "company" ->
            {[ticker |-> t, name |-> "bank"]}
      [] table_name = "cash_flow" ->
            {[ticker |-> t, year |-> y, quarter |-> q, amount |-> 30] :
                y \in {2023, 2024}, q \in {1, 5}}
      [] table_name = "daily_price" ->
            {[ticker |-> t, date |-> d, close |-> 10] : d \in DbDateCells}

\* the primary-key tuple of a row
KeyOf(r, primary_keys) == [i \in 1..Len(primary_keys) |-> r[primary_keys[i]]]

\* a table content the PRIMARY KEY constraint admits
UniqueKeys(rows, primary_keys) ==
    \A r1, r2 \in rows : KeyOf(r1, primary_keys) = KeyOf(r2, primary_keys) => r1 = r2

EmptyTables == [t \in TableNames |-> {}]

\* ------------------------------------------------------------------ store
\* psycopg.connect(db_url): autocommit is off, so the first statement opens
\* a transaction that stays open until commit().
Connect(tables) ==
    [status |-> "IDLE",      \* IDLE, INTRANS, INERROR or CLOSED
     tables |-> tables,      \* committed content
     view   |-> tables,      \* content as the open transaction sees it
     temps  |-> {},          \* temporary tables of the session (transaction's view)
     ctemps |-> {},          \* temporary tables whose creation is committed
     commits |-> 0]          \* calls of commit() made on the connection

Usable(c) == c.status \in {"IDLE", "INTRANS"}

\* a statement failed: the server aborts the transaction, undoing its work,
\* and refuses every further statement until the block is ended.
Abort(c) == [c EXCEPT !.status = "INERROR", !.view = c.tables, !.temps = c.ctemps]

\* self._conn.commit(): ends the transaction block; a failed block is rolled back
Commit(c) ==
    CASE c.status = "INTRANS" ->
            [c EXCEPT !.status = "IDLE", !.tables = c.view, !.ctemps = c.temps,
                      !.commits = @ + 1]
      [] c.status = "INERROR" -> [c EXCEPT !.status = "IDLE", !.commits = @ + 1]
      [] OTHER -> [c EXCEPT !.commits = @ + 1]

\* the row as the tuple cur.fetchall() yields, in the table's column order
RowTuple(columns, r) == [i \in 1..Len(columns) |-> r[columns[i]]]

\* DBInterface.get_records_with_primary_keys: SELECT * FROM table WHERE ticker = %s.
\* fail is a database error raised by the statement.
get_records_with_primary_keys(c, table_name, ticker, fail) ==
    IF ~Usable(c) THEN [raised |-> TRUE, records |-> {}, conn |-> c]
    ELSE IF fail \/ table_name \notin DOMAIN c.view
         THEN [raised |-> TRUE, records |-> {}, conn |-> Abort(c)]
    ELSE [raised  |-> FALSE,
          records |-> {RowTuple(db_schema[table_name].columns, r) :
                          r \in {x \in c.view[table_name] : x.ticker = ticker}},
          conn    |-> [c EXCEPT !.status = "INTRANS"]]

\* ----------------------------------------------------------------- filter
Frame(columns, rows) == [columns |-> columns, rows |-> rows]

\* pd.DataFrame(primary_keys_records, columns=df.columns): the tuples are
\* labelled by position with the names of the fetched table
LabelRecords(records, columns) ==
    {[c \in Range(columns) |-> t[IndexOf(columns, c)]] : t \in records}

\* df['date'] = pd.to_datetime(df['date'])
ConvertDate(r) == [r EXCEPT !["date"] = to_datetime(@)]

ConvertDates(rows) == [i \in 1..Len(rows) |-> ConvertDate(rows[i])]

\* a mutant: the keys are matched column by column (isin per column)
merge_indicator_per_column(r, right, primary_keys) ==
    IF \A i \in 1..Len(primary_keys) :
          \E q \in right : q[primary_keys[i]] = r[primary_keys[i]]
    THEN "both" ELSE "left_only"

\* df.merge(db_df[primary_keys], on=primary_keys, how='left', indicator=True):
\* the _merge cell of left row r
merge_indicator(r, right, primary_keys) ==
    IF \E q \in right :
          \A i \in 1..Len(primary_keys) : q[primary_keys[i]] = r[primary_keys[i]]
    THEN "both" ELSE "left_only"

\* merged_df[merged_df['_merge'] == 'left_only'].drop(columns=['_merge'])
RECURSIVE left_only(_, _, _)
left_only(rows, right, primary_keys) ==
    IF rows = <<>> THEN <<>>
    ELSE LET rest == left_only(Tail(rows), right, primary_keys)
         IN  IF merge_indicator(Head(rows), right, primary_keys) = "left_only"
             THEN <<Head(rows)>> \o rest
             ELSE rest

\* lines 119-137: the anti-join proper, reached when the store returned rows
anti_join(df, records, primary_keys) ==
    IF \E t \in records : Len(t) # Len(df.columns)
    THEN [raised |-> TRUE, df |-> df]                \* ValueError of the constructor
    ELSE IF primary_keys = <<>> \/ ~(Range(primary_keys) \subseteq Range(df.columns))
    THEN [raised |-> TRUE, df |-> df]                \* KeyError / MergeError
    ELSE LET db_df == LabelRecords(records, df.columns)
             dated == "date" \in Range(primary_keys)
             left  == IF dated THEN ConvertDates(df.rows) ELSE df.rows
             right == IF dated THEN {ConvertDate(q) : q \in db_df} ELSE db_df
         IN  [raised |-> FALSE,
              df     |-> Frame(df.columns, left_only(left, right, primary_keys))]

\* a mutant: the early return of lines 116-117 is missing
filter_records_no_early_return(df, records, primary_keys) ==
    anti_join(df, records, primary_keys)

\* lines 116-137
filter_records(df, records, primary_keys) ==
    IF records = {} THEN [raised |-> FALSE, df |-> df]
    ELSE anti_join(df, records, primary_keys)

\* DataOrchestrator._delete_unnecessary_records_from_df
delete_unnecessary_records_from_df(c, df, table_name, ticker, primary_keys, fail) ==
    LET sel == get_records_with_primary_keys(c, table_name, ticker, fail)
    IN  IF sel.raised THEN [raised |-> TRUE, df |-> df, conn |-> sel.conn]
        ELSE LET res == filter_records(df, sel.records, primary_keys)
             IN  [raised |-> res.raised, df |-> res.df, conn |-> sel.conn]

\* ------------------------------------------------- specification: filter
NoRun == [pc |-> "off"]
NoCall == [op |-> "none"]

\* what the store can hold when the filter of (table, ticker) runs: at most
\* MaxPersisted rows of the ticker, and possibly a row of the other ticker
Persisted(table_name, t) ==
    {rows \in SUBSET DbRows(table_name, t) :
        /\ Cardinality(rows) <= MaxPersisted
        /\ UniqueKeys(rows, db_schema[table_name].primary_keys)}

OtherRows(table_name, t) ==
    {{}} \cup {{r} : r \in UNION {DbRows(table_name, o) : o \in Tickers \ {t}}}

InitFilter ==
    \E table_name \in TableNames, t \in Tickers :
      \E rows \in SeqUpTo(DfRows(table_name, t), MaxRows),
         mine \in Persisted(table_name, t),
         others \in OtherRows(table_name, t) :
        /\ input = [op |-> "filter", table_name |-> table_name, ticker |-> t,
                    df |-> Frame(db_schema[table_name].columns, rows)]
        /\ conn = Connect([EmptyTables EXCEPT ![table_name] = mine \cup others])
        /\ last = NoCall
        /\ run = NoRun

\* one call of _delete_unnecessary_records_from_df on the drawn arguments
Filter ==
    /\ input.op = "filter"
    /\ last.op = "none"
    /\ LET res == delete_unnecessary_records_from_df(
                      conn, input.df, input.table_name, input.ticker,
                      db_schema[input.table_name].primary_keys, FALSE)
       IN  /\ last' = [op |-> "filter", raised |-> res.raised, df |-> res.df]
           /\ conn' = res.conn
    /\ UNCHANGED <<input, run>>

NextFilter == Filter

SpecFilter == InitFilter /\ [][NextFilter]_vars

\* the rows the store held for the (table, ticker) of the filter call
FilterPersisted ==
    {r \in conn.tables[input.table_name] : r.ticker = input.ticker}

\* what a cell denotes: a date cell denotes its day, whatever its representation
Canon(col, v) == IF col = "date" THEN v[2] ELSE v

SameKey(r, p, primary_keys) ==
    \A i \in 1..Len(primary_keys) :
        Canon(primary_keys[i], r[primary_keys[i]]) = Canon(primary_keys[i], p[primary_keys[i]])

FilterKeys == db_schema[input.table_name].primary_keys

IsNew(r) == ~\E p \in FilterPersisted : SameKey(r, p, FilterKeys)

NewRows == SelectSeq(input.df.rows, IsNew)

\* C1: the filter returns exactly the input rows, in input order, whose full
\* primary-key tuple does not occur among the rows persisted for (table,
\* ticker); the cells of a returned row denote what the input row's cells
\* denote (a date key is returned as a Timestamp of the same day).
C1_AntiJoinOnFullKey ==
    last.op = "filter" =>
        /\ ~last.raised
        /\ last.df.columns = input.df.columns
        /\ Len(last.df.rows) = Len(NewRows)
        /\ \A j \in 1..Len(NewRows) :
             \A col \in Range(input.df.columns) :
                Canon(col, last.df.rows[j][col]) = Canon(col, NewRows[j][col])

\* C1 witness: a returned row each of whose key columns matches some
\* persisted row, though no persisted row has its whole key, beside an input
\* row that was dropped
C1_PartialMatchKept ==
    /\ last.op = "filter"
    /\ Len(last.df.rows) < Len(input.df.rows)
    /\ \E j \in 1..Len(last.df.rows) :
         /\ \A i \in 1..Len(FilterKeys) :
              \E p \in FilterPersisted :
                 Canon(FilterKeys[i], p[FilterKeys[i]])
                    = Canon(FilterKeys[i], last.df.rows[j][FilterKeys[i]])
         /\ Len(FilterKeys) > 1

\* C2: the filter returns an empty table when every input row's key is
\* persisted, and the very input table (rows, order, cells) when the store
\* holds no row for the table and ticker.
C2_EmptyAndIdentity ==
    last.op = "filter" =>
        /\ (\A i \in 1..Len(input.df.rows) : ~IsNew(input.df.rows[i]))
              => (~last.raised /\ last.df.rows = <<>>)
        /\ FilterPersisted = {} => (~last.raised /\ last.df = input.df)

\* C2 witness: a non-empty table all of whose keys are persisted, one of them
\* a date read as text, was filtered
C2_AllPersisted ==
    /\ last.op = "filter"
    /\ Len(input.df.rows) = MaxRows
    /\ \A i \in 1..Len(input.df.rows) : ~IsNew(input.df.rows[i])
    /\ input.table_name = "daily_price"
    /\ \E i \in 1..Len(input.df.rows) : input.df.rows[i].date[1] = "str"
    /\ last.df.rows = <<>>

\* -------------------------------------------------------- clean_dataframe
MaxCleanRows == 3   \* rows of a raw table handed to clean_dataframe

\* missing_columns = [col for col in table_schema if col not in df.columns]
missing_columns(df, table_schema) ==
    SelectSeq(table_schema, LAMBDA col : col \notin Range(df.columns))

\* for col in missing_columns: df[col] = None
add_missing_columns(df, table_schema) ==
    LET missing == missing_columns(df, table_schema)
    IN  Frame(df.columns \o missing,
              [i \in 1..Len(df.rows) |->
                  [c \in Range(df.columns) \cup Range(missing) |->
                      IF c \in Range(df.columns) THEN df.rows[i][c] ELSE None]])

\* a mutant: the schema's columns are selected in the frame's own order
project_in_frame_order(df, table_schema) ==
    Frame(SelectSeq(df.columns, LAMBDA c : c \in Range(table_schema)),
          [i \in 1..Len(df.rows) |-> [c \in Range(table_schema) |-> df.rows[i][c]]])

\* df = df[table_schema]
project(df, table_schema) ==
    Frame(table_schema,
          [i \in 1..Len(df.rows) |-> [c \in Range(table_schema) |-> df.rows[i][c]]])

\* a mutant: keep='last'
RECURSIVE drop_duplicates_keep_last(_, _)
drop_duplicates_keep_last(rows, subset) ==
    IF rows = <<>> THEN <<>>
    ELSE LET r == Head(rows)
         IN  IF \E i \in 2..Len(rows) : KeyOf(rows[i], subset) = KeyOf(r, subset)
             THEN drop_duplicates_keep_last(Tail(rows), subset)
             ELSE <<r>> \o drop_duplicates_keep_last(Tail(rows), subset)

\* a mutant: only the first row that repeats an earlier key is dropped
drop_duplicates_once(rows, subset) ==
    LET repeats == {i \in 1..Len(rows) :
                       \E h \in 1..(i - 1) : KeyOf(rows[h], subset) = KeyOf(rows[i], subset)}
    IN  IF repeats = {} THEN rows
        ELSE LET d == CHOOSE i \in repeats : \A j \in repeats : i <= j
             IN  SubSeq(rows, 1, d - 1) \o SubSeq(rows, d + 1, Len(rows))

\* rows whose key has not been seen among the rows before them
RECURSIVE keep_first(_, _, _)
keep_first(rows, subset, seen) ==
    IF rows = <<>> THEN <<>>
    ELSE LET k == KeyOf(Head(rows), subset)
         IN  IF k \in seen
             THEN keep_first(Tail(rows), subset, seen)
             ELSE <<Head(rows)>> \o keep_first(Tail(rows), subset, seen \cup {k})

\* df.drop_duplicates(subset=primary_key_cols, keep='first', inplace=True);
\* None cells compare equal, as pandas treats missing values in duplicated()
drop_duplicates(rows, subset) == keep_first(rows, subset, {})

\* util.utility.clean_dataframe.  With an empty key list all(...) is True
\* and DataFrame.duplicated is asked for an empty subset, which raises
\* ValueError on a non-empty frame (an empty frame is returned as it is).
clean_dataframe(df, table_schema, primary_key_cols) ==
    LET conformed == project(add_missing_columns(df, table_schema), table_schema)
    IN  IF \A i \in 1..Len(primary_key_cols) :
              primary_key_cols[i] \in Range(conformed.columns)
        THEN IF primary_key_cols = <<>> /\ conformed.rows # <<>>
             THEN [raised |-> TRUE, df |-> conformed, warned |-> FALSE]
             ELSE [raised |-> FALSE,
                   df     |-> Frame(conformed.columns,
                                    drop_duplicates(conformed.rows, primary_key_cols)),
                   warned |-> FALSE]
        ELSE [raised |-> FALSE, df |-> conformed, warned |-> TRUE]

\* ------------------------------------------ specification: clean_dataframe
CleanValues == {"a", "b"}

\* column lists of raw provider tables: conformant, with a foreign column and
\* a schema column missing, and short of a key column
RawColumns ==
    {<<"ticker", "year", "amount">>, <<"amount", "junk", "ticker">>, <<"year", "amount">>}

CleanSchemas == {<<"ticker", "year", "amount">>, <<"year", "ticker">>}

CleanKeys == {<<>>, <<"ticker">>, <<"ticker", "year">>, <<"ticker", "quarter">>}

InitClean ==
    \E columns \in RawColumns, table_schema \in CleanSchemas,
       primary_key_cols \in CleanKeys :
      \E rows \in SeqUpTo([Range(columns) -> CleanValues], MaxCleanRows) :
        /\ input = [op |-> "clean", df |-> Frame(columns, rows),
                    table_schema |-> table_schema,
                    primary_key_cols |-> primary_key_cols]
        /\ conn = Connect(EmptyTables)
        /\ last = NoCall
        /\ run = NoRun

\* one call of clean_dataframe on the drawn arguments
Clean ==
    /\ input.op = "clean"
    /\ last.op = "none"
    /\ LET res == clean_dataframe(input.df, input.table_schema, input.primary_key_cols)
       IN  last' = [op |-> "clean", raised |-> res.raised, df |-> res.df,
                    warned |-> res.warned]
    /\ UNCHANGED <<conn, input, run>>

\* clean_dataframe called on its own result with the same schema and keys
CleanAgain ==
    /\ input.op = "clean"
    /\ last.op = "clean"
    /\ ~last.raised
    /\ LET res == clean_dataframe(last.df, input.table_schema, input.primary_key_cols)
       IN  last' = [op |-> "again", first |-> last.df, raised |-> res.raised,
                    df |-> res.df, warned |-> res.warned]
    /\ UNCHANGED <<conn, input, run>>

NextClean == Clean \/ CleanAgain

SpecClean == InitClean /\ [][NextClean]_vars

\* the cell of input row r under schema column c after conformance
ConformedCell(r, c) == IF c \in Range(input.df.columns) THEN r[c] ELSE None

ConformedRow(i) ==
    [c \in Range(input.table_schema) |-> ConformedCell(input.df.rows[i], c)]

CleanKeyOf(i) ==
    [k \in 1..Len(input.primary_key_cols) |->
        ConformedCell(input.df.rows[i], input.primary_key_cols[k])]

\* rows that are the first of their key in the input's row order
FirstOfKey == {i \in 1..Len(input.df.rows) :
                  \A h \in 1..(i - 1) : CleanKeyOf(h) # CleanKeyOf(i)}

\* the j-th smallest element of a set of row numbers
Nth(S, j) == CHOOSE i \in S : Cardinality({x \in S : x < i}) = j - 1

KeysInSchema ==
    /\ input.primary_key_cols # <<>>
    /\ Range(input.primary_key_cols) \subseteq Range(input.table_schema)

\* C10: with a non-empty key list clean_dataframe never returns more rows
\* than it was given; when the key columns are schema columns it returns, in
\* input order, exactly the rows that are the first of their key, so at most
\* one row per primary-key tuple.
C10_FirstRowPerKey ==
    (last.op = "clean" /\ input.primary_key_cols # <<>>) =>
        /\ ~last.raised
        /\ Len(last.df.rows) <= Len(input.df.rows)
        /\ KeysInSchema =>
             /\ Len(last.df.rows) = Cardinality(FirstOfKey)
             /\ \A j \in 1..Len(last.df.rows) :
                   last.df.rows[j] = ConformedRow(Nth(FirstOfKey, j))
             /\ \A j1, j2 \in 1..Len(last.df.rows) :
                   KeyOf(last.df.rows[j1], input.primary_key_cols)
                      = KeyOf(last.df.rows[j2], input.primary_key_cols) => j1 = j2

\* C10 witness: of two rows with one key and different other cells the
\* later was dropped, and a row of another key after them was kept
C10_DuplicateDropped ==
    /\ last.op = "clean"
    /\ KeysInSchema
    /\ Len(input.df.rows) = 3
    /\ CleanKeyOf(1) = CleanKeyOf(2)
    /\ ConformedRow(1) # ConformedRow(2)
    /\ CleanKeyOf(3) # CleanKeyOf(1)
    /\ last.df.rows = <<ConformedRow(1), ConformedRow(3)>>

\* ------------------------------------------------------------ bulk loader
\* df.to_csv(...) read back by COPY ... WITH CSV HEADER: a cell travels as
\* text and is parsed into the column's type, a date column into a date
CsvCell(col, v) == IF col = "date" THEN <<"date", v[2]>> ELSE v

\* COPY ignores the header line: the i-th field of a line goes to the i-th
\* column of the table
CopyRow(table_columns, df, r) ==
    [c \in Range(table_columns) |->
        CsvCell(c, r[df.columns[IndexOf(table_columns, c)]])]

CopyRows(table_columns, df) ==
    [i \in 1..Len(df.rows) |-> CopyRow(table_columns, df, df.rows[i])]

\* every line has as many fields as the table has columns
WidthFits(table_columns, df) ==
    df.rows # <<>> => Len(df.columns) = Len(table_columns)

\* PRIMARY KEY: the new rows have pairwise distinct keys, none of them present
NoKeyClash(present, rows, primary_keys) ==
    /\ \A i, j \in 1..Len(rows) :
          KeyOf(rows[i], primary_keys) = KeyOf(rows[j], primary_keys) => i = j
    /\ \A i \in 1..Len(rows) :
          \A p \in present : KeyOf(p, primary_keys) # KeyOf(rows[i], primary_keys)

\* FOREIGN KEY (ticker) REFERENCES company: the dependents name a company row
ForeignKeysHold(view, table_name, rows) ==
    db_schema[table_name].foreign_keys # <<>> =>
        \A i \in 1..Len(rows) : \E p \in view["company"] : p.ticker = rows[i].ticker

\* DBInterface.dump_data_to_db; fail = "copy" is a database error raised
\* while the COPY runs
dump_data_to_db(c, table_name, df, fail) ==
    IF ~Usable(c) THEN [raised |-> TRUE, conn |-> c]
    ELSE IF table_name \notin DOMAIN c.view THEN [raised |-> TRUE, conn |-> Abort(c)]
    ELSE LET columns == db_schema[table_name].columns
         IN  IF fail = "copy" \/ ~WidthFits(columns, df)
             THEN [raised |-> TRUE, conn |-> Abort(c)]
             ELSE LET rows == CopyRows(columns, df)
                  IN  IF  /\ NoKeyClash(c.view[table_name], rows,
                                        db_schema[table_name].primary_keys)
                          /\ ForeignKeysHold(c.view, table_name, rows)
                      THEN [raised |-> FALSE,
                            conn   |-> Commit([c EXCEPT
                                          !.status = "INTRANS",
                                          !.view[table_name] = @ \cup Range(rows)])]
                      ELSE [raised |-> TRUE, conn |-> Abort(c)]

\* temp_table = f"tmp_{table_name}_{uuid.uuid4().hex[:8]}": a name no
\* temporary table of the session bears
TempName(c, table_name) ==
    <<"tmp", table_name,
      CHOOSE n \in 1..(Cardinality(c.temps) + 1) : <<"tmp", table_name, n>> \notin c.temps>>

NoResult == [inserted |-> -1, updated |-> -1]

\* a mutant: the join condition names the first key column only
match_count_first_key(target, staged, primary_keys) ==
    Cardinality({<<p, i>> \in target \X (1..Len(staged)) :
                    p[primary_keys[1]] = staged[i][primary_keys[1]]})

\* SELECT COUNT(*) FROM target t JOIN temp tt ON t.pk = tt.pk AND ...
match_count(target, staged, primary_keys) ==
    Cardinality({<<p, i>> \in target \X (1..Len(staged)) :
                    KeyOf(p, primary_keys) = KeyOf(staged[i], primary_keys)})

\* INSERT INTO target (cols) SELECT cols FROM temp ON CONFLICT (pks)
\* DO UPDATE SET c = EXCLUDED.c for the non-key columns of df (DO NOTHING
\* when df has none)
merge(target, staged, cols, primary_keys) ==
    LET non_pk_cols == {col \in Range(cols) : col \notin Range(primary_keys)}
        Hit(p) == {i \in 1..Len(staged) :
                      KeyOf(staged[i], primary_keys) = KeyOf(p, primary_keys)}
        updated == {[col \in DOMAIN p |->
                        IF Hit(p) # {} /\ col \in non_pk_cols
                        THEN staged[CHOOSE i \in Hit(p) : TRUE][col] ELSE p[col]] :
                    p \in target}
        inserted == {staged[i] : i \in {j \in 1..Len(staged) :
                        \A p \in target :
                           KeyOf(p, primary_keys) # KeyOf(staged[j], primary_keys)}}
    IN  updated \cup inserted

\* a mutant: the explicit DROP TABLE of line 176 is left out
finish_upsert_without_drop(c, temp_table) == Commit(c)

\* a mutant: the merge is committed, then the staging table dropped and
\* the drop committed
finish_upsert_in_two_commits(c, temp_table) ==
    Commit([Commit(c) EXCEPT !.status = "INTRANS", !.temps = @ \ {temp_table}])

\* lines 176-178: DROP TABLE IF EXISTS temp; commit
finish_upsert(c, temp_table) == Commit([c EXCEPT !.temps = @ \ {temp_table}])

\* DBInterface.upsert_data_to_db, lines 106-181: the staging table, the
\* COPY into it, the counts, the merge, the drop and the commit; fail names
\* the statement at which the database raises: "create", "copy", "count",
\* "match", "merge", "drop" or "none"
upsert_rows(c, table_name, df, primary_keys, fail) ==
    LET temp_table == TempName(c, table_name)
        Out(raised, cn, created, result) ==
            [raised |-> raised, conn |-> cn, created |-> created,
             temp_table |-> temp_table, result |-> result]
    IN
    IF ~Usable(c) THEN Out(TRUE, c, FALSE, NoResult)
    ELSE IF fail = "create" \/ table_name \notin DOMAIN c.view
    THEN Out(TRUE, Abort(c), FALSE, NoResult)
    ELSE
    LET columns == db_schema[table_name].columns
        c1 == [c EXCEPT !.status = "INTRANS", !.temps = @ \cup {temp_table}]
    IN
    IF fail = "copy" \/ ~WidthFits(columns, df)
    THEN Out(TRUE, Abort(c1), TRUE, NoResult)
    ELSE
    LET staged == CopyRows(columns, df)
        target == c1.view[table_name]
    IN
    \* the staging table is created LIKE the target INCLUDING ALL: its
    \* primary key is the target's
    IF ~NoKeyClash({}, staged, db_schema[table_name].primary_keys)
    THEN Out(TRUE, Abort(c1), TRUE, NoResult)
    ELSE IF fail = "count" THEN Out(TRUE, Abort(c1), TRUE, NoResult)
    ELSE IF fail = "match" \/ ~(Range(primary_keys) \subseteq Range(columns))
    THEN Out(TRUE, Abort(c1), TRUE, NoResult)
    ELSE
    LET temp_count == Len(staged)
        matched == match_count(target, staged, primary_keys)
        merged  == merge(target, staged, df.columns, primary_keys)
    IN
    \* ON CONFLICT (pks) needs a unique index on exactly these columns
    IF  \/ fail = "merge"
        \/ Range(primary_keys) # Range(db_schema[table_name].primary_keys)
        \/ ~(Range(df.columns) \subseteq Range(columns))
        \/ ~ForeignKeysHold(c1.view, table_name, staged)
    THEN Out(TRUE, Abort(c1), TRUE, NoResult)
    ELSE IF fail = "drop" THEN Out(TRUE, Abort(c1), TRUE, NoResult)
    ELSE Out(FALSE,
             finish_upsert([c1 EXCEPT !.view[table_name] = merged], temp_table),
             TRUE,
             [inserted |-> temp_count - matched, updated |-> matched])

\* df is None
NoFrame == [none |-> TRUE, columns |-> <<>>, rows |-> <<>>]

\* df is None or df.empty (line 98)
NoRows(df) == "none" \in DOMAIN df \/ df.rows = <<>> \/ df.columns = <<>>

\* a mutant: the key list is looked at after the staging table is created
upsert_data_to_db_keys_checked_late(c, table_name, df, primary_keys, fail) ==
    IF NoRows(df)
    THEN [raised |-> FALSE, conn |-> c, created |-> FALSE,
          temp_table |-> TempName(c, table_name),
          result |-> [inserted |-> 0, updated |-> 0]]
    ELSE IF primary_keys = <<>> /\ Usable(c) /\ table_name \in DOMAIN c.view
    THEN [raised |-> TRUE,
          conn |-> [c EXCEPT !.status = "INTRANS", !.temps = @ \cup {TempName(c, table_name)}],
          created |-> TRUE, temp_table |-> TempName(c, table_name), result |-> NoResult]
    ELSE upsert_rows(c, table_name, df, primary_keys, fail)

\* DBInterface.upsert_data_to_db: the two early exits of lines 98-104, then
\* the load
upsert_data_to_db(c, table_name, df, primary_keys, fail) ==
    IF NoRows(df)
    THEN [raised |-> FALSE, conn |-> c, created |-> FALSE,
          temp_table |-> TempName(c, table_name),
          result |-> [inserted |-> 0, updated |-> 0]]
    ELSE IF primary_keys = <<>>      \* ValueError
    THEN [raised |-> TRUE, conn |-> c, created |-> FALSE,
          temp_table |-> TempName(c, table_name), result |-> NoResult]
    ELSE upsert_rows(c, table_name, df, primary_keys, fail)

\* ------------------------------------------------ specification: loader
MaxStaged == 2   \* rows of a DataFrame handed to the bulk loader

LoadTables == {"company", "cash_flow"}

\* rows a LoadBatch can hold
LoadRows(table_name) ==
    CASE table_name = "company" ->
            {[ticker |-> t, name |-> n] : t \in Tickers, n \in {"bank", "Bank"}}
      [] table_name = "cash_flow" ->
            {[ticker |-> "ACB", year |-> 2023, quarter |-> q, amount |-> a] :
                q \in {1, 5}, a \in {30, 100}}

LoadFrames(table_name) ==
    {Frame(db_schema[table_name].columns, rows) :
        rows \in SeqUpTo(LoadRows(table_name), MaxStaged)}

\* what the tables hold when the connection is opened: a content the
\* constraints of the schema admit
StoredTables ==
    {[EmptyTables EXCEPT !["company"] = co, !["cash_flow"] = cf] :
        co \in SUBSET {[ticker |-> t, name |-> "bank"] : t \in Tickers},
        cf \in SUBSET {[ticker |-> "ACB", year |-> 2023, quarter |-> q, amount |-> 30] :
                          q \in {1, 5}}}

Admitted(tables) ==
    \A r \in tables["cash_flow"] : \E p \in tables["company"] : p.ticker = r.ticker

InitLoader ==
    \E tables \in {t \in StoredTables : Admitted(t)} :
        /\ conn = Connect(tables)
        /\ input = [op |-> "loader"]
        /\ last = NoCall
        /\ run = NoRun

\* one load is made on the connection, fresh or used by a filter before
LoadAllowed == input.op = "loader" /\ last.op \in {"none", "select"}

\* a call of get_records_with_primary_keys, as the filter makes before a load
SelectCall ==
    /\ input.op = "loader"
    /\ last.op = "none"
    /\ \E table_name \in LoadTables, t \in Tickers, fail \in BOOLEAN :
         LET res == get_records_with_primary_keys(conn, table_name, t, fail)
         IN  /\ conn' = res.conn
             /\ last' = [op |-> "select", pre |-> conn, raised |-> res.raised]
    /\ UNCHANGED <<input, run>>

\* a call of dump_data_to_db
DumpCall ==
    /\ LoadAllowed
    /\ \E table_name \in LoadTables, fail \in {"none", "copy"} :
         \E df \in LoadFrames(table_name) :
            LET res == dump_data_to_db(conn, table_name, df, fail)
            IN  /\ conn' = res.conn
                /\ last' = [op |-> "dump", pre |-> conn, table_name |-> table_name,
                            df |-> df, raised |-> res.raised]
    /\ UNCHANGED <<input, run>>

UpsertFailures == {"none", "create", "copy", "count", "match", "merge", "drop"}

\* a call of upsert_data_to_db: with the table's key list and a database
\* error at any statement, or with another key list
UpsertCall ==
    /\ LoadAllowed
    /\ \E table_name \in LoadTables :
         \E df \in LoadFrames(table_name) \cup {NoFrame},
            arg \in ({db_schema[table_name].primary_keys} \X UpsertFailures)
                       \cup ({<<>>, <<"ticker">>} \X {"none"}) :
            LET res == upsert_data_to_db(conn, table_name, df, arg[1], arg[2])
            IN  /\ conn' = res.conn
                /\ last' = [op |-> "upsert", pre |-> conn, table_name |-> table_name,
                            df |-> df, primary_keys |-> arg[1], fail |-> arg[2],
                            raised |-> res.raised, created |-> res.created,
                            temp_table |-> res.temp_table, result |-> res.result]
    /\ UNCHANGED <<input, run>>

NextLoader == SelectCall \/ DumpCall \/ UpsertCall

SpecLoader == InitLoader /\ [][NextLoader]_vars

\* C5: an error at any step of dump_data_to_db or upsert_data_to_db, called
\* on an idle connection, leaves none of the call's rows persisted and the
\* connection outside any open or failed transaction.
C5_FailedLoadRolledBack ==
    (last.op \in {"dump", "upsert"} /\ last.raised /\ last.pre.status = "IDLE") =>
        /\ conn.tables = last.pre.tables
        /\ conn.view = last.pre.tables
        /\ conn.status = "IDLE"

\* C6: whenever upsert_data_to_db exits after having created its staging
\* table, by return or by an error, the session holds no such table.
C6_StagingTableGone ==
    (last.op = "upsert" /\ last.created) =>
        /\ last.temp_table \notin conn.temps
        /\ last.temp_table \notin conn.ctemps

\* C6 witness: the merge statement raised after the staging table had been
\* created and filled
C6_MergeFailedAfterStaging ==
    /\ last.op = "upsert"
    /\ last.created
    /\ last.raised
    /\ last.fail = "merge"
    /\ last.temp_table \notin conn.temps

UpsertTarget == last.pre.view[last.table_name]

UpsertStagedHits ==
    {i \in 1..Len(last.df.rows) :
        \E p \in UpsertTarget :
           KeyOf(p, last.primary_keys) = KeyOf(last.df.rows[i], last.primary_keys)}

\* C7: an upsert that returns reports updated = the staged rows whose key
\* was in the target before the merge and inserted = the others; afterwards
\* the target holds every staged row with the staged values, and its rows
\* of other keys as they were, and nothing else.
C7_UpsertCountsAndMerge ==
    (last.op = "upsert" /\ ~last.raised) =>
        /\ last.result.updated = Cardinality(UpsertStagedHits)
        /\ last.result.inserted = Len(last.df.rows) - Cardinality(UpsertStagedHits)
        /\ \A i \in 1..Len(last.df.rows) :
              last.df.rows[i] \in conn.tables[last.table_name]
        /\ \A p \in UpsertTarget :
              (\A i \in 1..Len(last.df.rows) :
                  KeyOf(p, last.primary_keys) # KeyOf(last.df.rows[i], last.primary_keys))
                 => p \in conn.tables[last.table_name]
        /\ \A q \in conn.tables[last.table_name] :
              \/ q \in UpsertTarget
              \/ \E i \in 1..Len(last.df.rows) : q = last.df.rows[i]
        /\ UniqueKeys(conn.tables[last.table_name], db_schema[last.table_name].primary_keys)
        /\ \A t \in TableNames \ {last.table_name} :
              conn.tables[t] = last.pre.view[t]

\* C7 witness: one staged row replaced the amount of a persisted row and
\* another was inserted
C7_OneUpdatedOneInserted ==
    /\ last.op = "upsert"
    /\ ~last.raised
    /\ last.table_name = "cash_flow"
    /\ last.result = [inserted |-> 1, updated |-> 1]
    /\ \E i \in UpsertStagedHits : last.df.rows[i] \notin UpsertTarget

\* ---------------------------------------------------- DataOrchestrator.run
\* the listing of get_listing(testing=True)
listings == <<"ACB", "MBB">>

\* FinanceAPI.build_dict's functions_to_call, in its order; the statement
\* tables are represented by cash_flow, each of them references company
functions_to_call == <<"company", "cash_flow">>

\* 'company' in x: of the table names only company contains the word
HasCompany(k) == k = "company"

NotHasCompany(k) == ~HasCompany(k)

\* sorted(xs, key=lambda x: 'company' in x, reverse=True): a stable sort,
\* the names with the word first, each group in its former order
sorted_company_first(keys) == SelectSeq(keys, HasCompany) \o SelectSeq(keys, NotHasCompany)

\* a mutant: the tables are dumped in the order the mapping holds them
dump_order_as_accumulated(keys) == keys

\* a mutant: every pass of the dump loop takes the first table
dump_order_repeating_first(keys) ==
    [i \in 1..Len(keys) |-> sorted_company_first(keys)[1]]

\* the order of the dump loop, line 222
dump_order(keys) == sorted_company_first(keys)

\* call_api's {} when build_dict raised: no key at all, not even 'ticker'
EmptyDataset == [ticker |-> None, keys |-> <<>>]

\* the table a ticker's dataset holds under key k, already normalized
Fetched(k, ticker) ==
    CASE k = "company" ->
            Frame(db_schema[k].columns, <<[ticker |-> ticker, name |-> "bank"]>>)
      [] k = "cash_flow" ->
            Frame(db_schema[k].columns,
                  <<[ticker |-> ticker, year |-> 2023, quarter |-> 1, amount |-> 100]>>)
      [] k = "daily_price" ->
            Frame(db_schema[k].columns,
                  <<[ticker |-> ticker, date |-> <<"date", 1>>, close |-> 10]>>)

\* pd.DataFrame()
EmptyFrame == Frame(<<>>, <<>>)

\* pd.concat([a, b], ignore_index=True) of frames of one table
concat(a, b) ==
    IF a.columns = <<>> THEN b
    ELSE IF b.columns = <<>> THEN a
    ELSE Frame(a.columns, a.rows \o b.rows)

\* lines 207-219 for one key of a dataset: filter the table and add it to
\* the batch, an exception skips the pair.  fail = "db" is a database error
\* raised by the filter's SELECT, fail = "client" an exception raised by the
\* filter after the SELECT returned.
filter_and_concat(st, ticker, k, fail) ==
    LET res    == delete_unnecessary_records_from_df(st.conn, Fetched(k, ticker), k, ticker,
                                                     db_schema[k].primary_keys, fail = "db")
        own    == \/ fail = "db" /\ Usable(st.conn)
                  \/ fail = "client" /\ ~res.raised
        raised == res.raised \/ fail = "client" \/ k \notin DOMAIN st.tables_to_dump
    IN  [conn           |-> res.conn,
         tables_to_dump |-> IF raised THEN st.tables_to_dump
                            ELSE [st.tables_to_dump EXCEPT ![k] = concat(@, res.df)],
         filtered       |-> st.filtered \cup {<<ticker, k>>},
         results        |-> IF res.raised \/ fail = "client" THEN st.results
                            ELSE st.results \cup {[ticker |-> ticker, table_name |-> k,
                                                   rows |-> res.df.rows]},
         skipped        |-> IF raised THEN st.skipped \cup {<<ticker, k>>} ELSE st.skipped,
         faulted        |-> IF own THEN st.faulted \cup {<<ticker, k>>} ELSE st.faulted]

\* the loop of line 206 over the sorted keys of one dataset
RECURSIVE filter_tables(_, _, _, _)
filter_tables(st, ticker, keys, fails) ==
    IF keys = <<>> THEN st
    ELSE filter_tables(filter_and_concat(st, ticker, Head(keys), fails[Head(keys)]),
                       ticker, Tail(keys), fails)

\* --------------------------------------------------- specification: run
\* pd.DataFrame({'quarter': [1, 2, 3, 4, 5]}): the rows of the quarters table
prepare_quarter_table == [i \in 1..5 |-> [quarter |-> i]]

\* what the tables hold when run starts: rows of earlier runs; the
\* dimension table quarters of the schema is empty or holds its five rows
RunStores ==
    {[t \in TableNames \cup {"quarters"} |->
         CASE t = "company" -> co
           [] t = "cash_flow" -> cf
           [] t = "quarters" -> qu
           [] OTHER -> {}] :
        co \in SUBSET {[ticker |-> t, name |-> "bank"] : t \in Tickers},
        cf \in SUBSET {[ticker |-> t, year |-> 2023, quarter |-> 1, amount |-> 30] :
                          t \in Tickers},
        qu \in {{}, Range(prepare_quarter_table)}}

FilterFailures == {"none", "db", "client"}

\* the files a complete folder of the day holds: as many as build_dict has
\* datasets
ExpectedFiles == 6

\* cur_date_path of a ticker: whether it exists, the number of files in it,
\* and the tables its files bear in their names, in the order iterdir yields
\* them.  The six files of a folder are represented by two of them; a
\* folder need not be one this program wrote, so its files can be those of
\* any tables.
NoFolder == [exists |-> FALSE, count |-> 0, keys |-> <<>>]

Folders ==
    {NoFolder}
    \cup {[exists |-> TRUE, count |-> n, keys |-> <<>>] :
             n \in {ExpectedFiles - 1, ExpectedFiles + 1}}
    \cup {[exists |-> TRUE, count |-> ExpectedFiles, keys |-> <<p[1], p[2]>>] :
             p \in {q \in TableNames \X TableNames : q[1] # q[2]}}

\* a mutant: a folder with more files than expected is read as well
folder_complete_with_extra_files(folder) ==
    folder.exists /\ folder.count >= ExpectedFiles

\* lines 173-176: the folder exists and holds exactly the expected files
folder_complete(folder) ==
    folder.exists /\ folder.count = ExpectedFiles

InitRun ==
    \E tables \in {t \in RunStores : Admitted(t)}, load_from_file \in BOOLEAN :
      \E folders \in (IF load_from_file THEN [Tickers -> Folders]
                       ELSE {[t \in Tickers |-> NoFolder]}) :
        /\ conn = Connect(tables)
        /\ input = [op |-> "run", tables |-> tables,
                    load_from_file |-> load_from_file, folders |-> folders]
        /\ last = NoCall
        /\ run = [pc |-> "fetch", i |-> 1, stock_data_list |-> <<>>,
                  fetch_calls |-> <<>>, closes |-> 0,
                  key_order |-> <<>>, tables_to_dump |-> <<>>,
                  filtered |-> {}, results |-> {}, skipped |-> {}, faulted |-> {},
                  loads |-> <<>>, load_fault |-> FALSE, cause |-> "none"]

\* lines 163-194, one pass of the loop over the listing: with
\* load_from_file the dataset of the ticker is read from the files of a
\* complete folder of the day, in the order the folder yields them;
\* otherwise _fetch_data_worker is called, and a failed fetch yields {}
Fetch ==
    /\ run.pc = "fetch"
    /\ run.i <= Len(listings)
    /\ LET ticker == listings[run.i]
           folder == input.folders[ticker]
       IN  IF input.load_from_file /\ folder_complete(folder)
           THEN run' = [run EXCEPT !.i = @ + 1,
                                   !.stock_data_list =
                                       Append(@, [ticker |-> ticker, keys |-> folder.keys])]
           ELSE \E ok \in BOOLEAN :
                   LET data == IF ok THEN [ticker |-> ticker, keys |-> functions_to_call]
                               ELSE EmptyDataset
                   IN  run' = [run EXCEPT !.i = @ + 1,
                                          !.stock_data_list = Append(@, data),
                                          !.fetch_calls = Append(@, ticker)]
    /\ UNCHANGED <<conn, input, last>>

\* lines 196-199: the batch has the keys of the first dataset but 'ticker'
Prepare ==
    /\ run.pc = "fetch"
    /\ run.i > Len(listings)
    /\ LET keys == run.stock_data_list[1].keys
       IN  run' = [run EXCEPT !.pc = "accumulate", !.i = 1,
                              !.key_order = keys,
                              !.tables_to_dump = [k \in Range(keys) |-> EmptyFrame]]
    /\ UNCHANGED <<conn, input, last>>

\* lines 201-219, one pass of the loop over the datasets
Accumulate ==
    /\ run.pc = "accumulate"
    /\ run.i <= Len(run.stock_data_list)
    /\ LET data == run.stock_data_list[run.i]
       IN  IF data.ticker = None
           THEN \* data['ticker'] raises KeyError, nothing catches it
                /\ run' = [run EXCEPT !.pc = "crashed", !.cause = "KeyError"]
                /\ UNCHANGED conn
           ELSE \E fails \in [Range(data.keys) -> FilterFailures] :
                   LET st == filter_tables([conn |-> conn,
                                            tables_to_dump |-> run.tables_to_dump,
                                            filtered |-> run.filtered,
                                            results |-> run.results,
                                            skipped |-> run.skipped,
                                            faulted |-> run.faulted],
                                           data.ticker,
                                           sorted_company_first(data.keys), fails)
                   IN  /\ conn' = st.conn
                       /\ run' = [run EXCEPT !.i = @ + 1,
                                             !.tables_to_dump = st.tables_to_dump,
                                             !.filtered = st.filtered,
                                             !.results = st.results,
                                             !.skipped = st.skipped,
                                             !.faulted = st.faulted]
    /\ UNCHANGED <<input, last>>

\* the dump loop is entered
StartDump ==
    /\ run.pc = "accumulate"
    /\ run.i > Len(run.stock_data_list)
    /\ run' = [run EXCEPT !.pc = "dump", !.i = 1]
    /\ UNCHANGED <<conn, input, last>>

\* lines 222-223, one pass of the dump loop; an exception of dump_data_to_db
\* leaves run.  fail = "copy" is a database error raised while the COPY runs.
Dump ==
    /\ run.pc = "dump"
    /\ run.i <= Len(run.key_order)
    /\ \E fail \in {"none", "copy"} :
         LET table_name == dump_order(run.key_order)[run.i]
             res == dump_data_to_db(conn, table_name, run.tables_to_dump[table_name], fail)
             log == Append(run.loads, [table_name |-> table_name, committed |-> ~res.raised])
         IN  /\ conn' = res.conn
             /\ run' = [run EXCEPT !.i = @ + 1,
                                   !.loads = log,
                                   !.load_fault = @ \/ (fail = "copy" /\ Usable(conn)),
                                   !.pc = IF res.raised THEN "crashed" ELSE @,
                                   !.cause = IF res.raised THEN "load" ELSE @]
    /\ UNCHANGED <<input, last>>

\* a mutant: run returns without closing the connection
Close_left_open ==
    /\ run.pc = "dump"
    /\ run.i > Len(run.key_order)
    /\ run' = [run EXCEPT !.pc = "done"]
    /\ UNCHANGED <<conn, input, last>>

\* line 228: close_connection
Close ==
    /\ run.pc = "dump"
    /\ run.i > Len(run.key_order)
    /\ conn' = [conn EXCEPT !.status = "CLOSED"]
    /\ run' = [run EXCEPT !.pc = "done", !.closes = @ + 1]
    /\ UNCHANGED <<input, last>>

NextRun == Fetch \/ Prepare \/ Accumulate \/ StartDump \/ Dump \/ Close

SpecRun == InitRun /\ [][NextRun]_vars

\* FOREIGN KEY (ticker) REFERENCES company (ticker): the tables a table references
References(table_name) ==
    IF db_schema[table_name].foreign_keys # <<>> THEN {"company"} ELSE {}

\* the tables of the batch that another table of the batch references
Referenced ==
    {k \in Range(run.key_order) :
        \E d \in Range(run.key_order) : k \in References(d)}

\* C3: when the load of a table of the batch is issued, every table of the
\* batch it references had its load issued and committed before.
C3_ReferencedTableLoadedFirst ==
    \A j \in 1..Len(run.loads) :
        \A k \in References(run.loads[j].table_name) :
            k \in Range(run.key_order) =>
                \E i \in 1..(j - 1) :
                    run.loads[i].table_name = k /\ run.loads[i].committed

\* C3 witness: the batch held cash_flow before company, and the run loaded
\* company, then cash_flow
C3_CompanyMovedToFront ==
    /\ run.pc = "done"
    /\ run.key_order = <<"cash_flow", "company">>
    /\ Referenced = {"company"}
    /\ run.loads = <<[table_name |-> "company", committed |-> TRUE],
                     [table_name |-> "cash_flow", committed |-> TRUE]>>
    /\ \E r \in conn.tables["cash_flow"] : r \notin input.tables["cash_flow"]

\* the rows the loads that committed before position j handed to the store
CommittedBefore(j) ==
    UNION {Range(run.tables_to_dump[run.loads[i].table_name].rows) :
              i \in {x \in 1..(j - 1) : run.loads[x].committed}}

\* C4: when the load of a table fails in a run whose filters raised
\* nothing, the run is not terminated by it, it ends with the load of every
\* table of the batch issued, and what was committed before stays committed.
C4_LoadFailureIsolated ==
    (run.faulted = {} /\ \E j \in 1..Len(run.loads) : ~run.loads[j].committed) =>
        /\ run.pc # "crashed"
        /\ run.pc = "done" =>
              \A k \in Range(run.key_order) :
                 \E j \in 1..Len(run.loads) : run.loads[j].table_name = k
        /\ \A j \in 1..Len(run.loads) :
              ~run.loads[j].committed =>
                 CommittedBefore(j) \subseteq UNION {conn.tables[t] : t \in TableNames}

FetchFailed == \E n \in 1..Len(run.stock_data_list) : run.stock_data_list[n] = EmptyDataset

\* C8: when the fetch of a ticker failed and nothing else goes wrong, the
\* run does not terminate with an error, and it ends with the rows of
\* every other ticker in the store.
C8_FetchFailureTolerated ==
    (FetchFailed /\ run.faulted = {} /\ ~run.load_fault) =>
        /\ run.pc # "crashed"
        /\ run.pc = "done" =>
              \A n \in 1..Len(run.stock_data_list) :
                 LET data == run.stock_data_list[n]
                 IN  data # EmptyDataset =>
                        \A k \in Range(data.keys) :
                           \A r \in Range(Fetched(k, data.ticker).rows) :
                              \E p \in conn.tables[k] :
                                 KeyOf(p, db_schema[k].primary_keys)
                                    = KeyOf(r, db_schema[k].primary_keys)

\* the rows of the pair's table whose key the store did not hold
NewOfPair(ticker, k) ==
    {r \in Range(Fetched(k, ticker).rows) :
        \A p \in input.tables[k] :
           KeyOf(p, db_schema[k].primary_keys) # KeyOf(r, db_schema[k].primary_keys)}

\* C9: the pairs left out of the batch are those whose own filter raised;
\* every other pair the loop came to is accumulated with its new rows.
C9_FilterFailureIsolated ==
    /\ run.skipped \subseteq run.faulted
    /\ \A pair \in run.filtered \ run.faulted :
          NewOfPair(pair[1], pair[2]) \subseteq Range(run.tables_to_dump[pair[2]].rows)

\* ------------------------------------------- claims on clean_dataframe
AllConformedRows == [i \in 1..Len(input.df.rows) |-> ConformedRow(i)]

\* C11: the result of clean_dataframe has exactly the schema's columns in
\* the schema's order; each of its rows is an input row with the columns
\* outside the schema dropped, the schema's missing columns None and the
\* other cells as they were; an empty input gives an empty result.
C11_ColumnsConformToSchema ==
    (last.op = "clean" /\ ~last.raised) =>
        /\ last.df.columns = input.table_schema
        /\ \A j \in 1..Len(last.df.rows) :
              /\ DOMAIN last.df.rows[j] = Range(input.table_schema)
              /\ \E i \in 1..Len(input.df.rows) : last.df.rows[j] = ConformedRow(i)
        /\ \A i \in 1..Len(input.df.rows) :
              \E j \in 1..Len(last.df.rows) :
                 \A c \in Range(input.primary_key_cols) \cap Range(input.table_schema) :
                    last.df.rows[j][c] = ConformedRow(i)[c]
        /\ last.warned => last.df.rows = AllConformedRows
        /\ input.df.rows = <<>> => last.df.rows = <<>>

\* C11 witness: a table with a column outside the schema and without the
\* schema's year column came back with year None in each of its rows
C11_ColumnAddedAndDropped ==
    /\ last.op = "clean"
    /\ ~last.raised
    /\ input.df.columns = <<"amount", "junk", "ticker">>
    /\ input.table_schema = <<"ticker", "year", "amount">>
    /\ Len(last.df.rows) >= 2
    /\ \A j \in 1..Len(last.df.rows) : last.df.rows[j].year = None
    /\ \E j \in 1..Len(last.df.rows) : last.df.rows[j].amount = "b"

\* C12: clean_dataframe applied to its own result, with the same schema
\* and keys, returns that result.
C12_CleanIdempotent ==
    last.op = "again" => (~last.raised /\ last.df = last.first)

\* C12 witness: the first call dropped a duplicate row and reshaped the
\* columns, the second call was made on its result
C12_SecondCallOnReshaped ==
    /\ last.op = "again"
    /\ input.df.columns # input.table_schema
    /\ Len(last.first.rows) < Len(input.df.rows)
    /\ Len(last.first.rows) >= 2

\* C13: with an empty key list, or a key column that is not a column after
\* conformance, clean_dataframe returns every row of a non-empty input and
\* logs a warning.
C13_NoKeysNoDeduplication ==
    (last.op = "clean" /\ ~KeysInSchema /\ input.df.rows # <<>>) =>
        /\ ~last.raised
        /\ last.warned
        /\ last.df.rows = AllConformedRows

\* ----------------------------------------------------------- transform_df
MaxLabels == 2   \* rows of a report table handed to transform_df

\* a string is the sequence of its characters
DigitChars == <<"0", "1", "2", "3", "4", "5", "6", "7", "8", "9">>

IsDigit(ch) == ch \in Range(DigitChars)

DigitValue(ch) == IndexOf(DigitChars, ch) - 1

\* str(n) of a natural number
RECURSIVE str(_)
str(n) == IF n < 10 THEN <<DigitChars[n + 1]>>
          ELSE str(n \div 10) \o <<DigitChars[(n % 10) + 1]>>

RECURSIVE digits_value(_, _)
digits_value(chars, acc) ==
    IF chars = <<>> THEN acc
    ELSE digits_value(Tail(chars), acc * 10 + DigitValue(Head(chars)))

\* int(text): ValueError unless the text is a non-empty run of digits
int(chars) ==
    IF chars = <<>> \/ \E i \in 1..Len(chars) : ~IsDigit(chars[i])
    THEN [raised |-> TRUE, value |-> 0]
    ELSE [raised |-> FALSE, value |-> digits_value(chars, 0)]

\* text.split('-')
RECURSIVE split(_, _)
split(chars, sep) ==
    IF \A i \in 1..Len(chars) : chars[i] # sep THEN <<chars>>
    ELSE LET at == CHOOSE i \in 1..Len(chars) :
                      chars[i] = sep /\ \A h \in 1..(i - 1) : chars[h] # sep
         IN  <<SubSeq(chars, 1, at - 1)>> \o split(SubSeq(chars, at + 1, Len(chars)), sep)

\* text.replace(old, '')
remove(chars, old) == SelectSeq(chars, LAMBDA ch : ch # old)

\* a mutant: the annual report is given quarter 4
extract_year_quarter_annual_as_4(index_str) ==
    IF "-" \in Range(index_str)
    THEN LET parts == split(index_str, "-")
         IN  IF Len(parts) # 2 THEN [raised |-> TRUE, year |-> 0, quarter |-> 0]
             ELSE LET year    == int(parts[1])
                      quarter == int(remove(parts[2], "Q"))
                  IN  [raised  |-> year.raised \/ quarter.raised,
                       year    |-> year.value,
                       quarter |-> quarter.value]
    ELSE LET year == int(index_str)
         IN  [raised |-> year.raised, year |-> year.value, quarter |-> 4]

\* transform_df's helper extract_year_quarter, lines 92-106
extract_year_quarter(index_str) ==
    IF "-" \in Range(index_str)
    THEN LET parts == split(index_str, "-")
         IN  IF Len(parts) # 2 THEN [raised |-> TRUE, year |-> 0, quarter |-> 0]
             ELSE LET year    == int(parts[1])
                      quarter == int(remove(parts[2], "Q"))
                  IN  [raised  |-> year.raised \/ quarter.raised,
                       year    |-> year.value,
                       quarter |-> quarter.value]
    ELSE LET year == int(index_str)
         IN  [raised |-> year.raised, year |-> year.value, quarter |-> 5]

\* a mutant: report_period is not among the columns dropped
drop_columns_without_report_period == <<"year", "quarter">>

drop_columns == <<"report_period", "year", "quarter">>

\* util.utility.transform_df on a frame with row labels df.index.  The
\* frame without a row is the one case the assignment of line 109 decides:
\* empty_raises says whether it raises there.
transform_df(df, empty_raises) ==
    LET kept    == SelectSeq(df.columns, LAMBDA c : c \notin Range(drop_columns))
        parsed  == [i \in 1..Len(df.index) |-> extract_year_quarter(df.index[i])]
        columns == kept \o <<"year", "quarter">>
        failed  == \/ \E i \in 1..Len(df.index) : parsed[i].raised
                   \/ df.index = <<>> /\ empty_raises
    IN  [raised |-> failed,
         df |-> IF failed THEN df
                ELSE [index   |-> df.index,
                      columns |-> columns,
                      rows    |-> [i \in 1..Len(df.index) |->
                                     [c \in Range(columns) |->
                                        CASE c = "year"    -> parsed[i].year
                                          [] c = "quarter" -> parsed[i].quarter
                                          [] OTHER         -> df.rows[i][c]]]]]

\* ------------------------------------------- specification: transform_df
ReportYears == {2022, 2023}

ReportQuarters == {1, 3}

AnnualLabel(y) == str(y)

QuarterlyLabel(y, n) == str(y) \o <<"-", "Q">> \o str(n)

\* labels of neither form
OtherLabels == {<<"Q", "3">>, <<"2", "0", "2", "2", "-", "Q">>,
                <<"2", "0", "2", "2", "-", "Q", "1", "-", "x">>}

ReportLabels ==
    {AnnualLabel(y) : y \in ReportYears}
       \cup {QuarterlyLabel(y, n) : y \in ReportYears, n \in ReportQuarters}
       \cup OtherLabels

\* column lists of the provider's report tables: with and without the
\* period columns transform_df drops
ReportColumns == {<<"amount", "ticker">>, <<"year", "amount", "report_period">>}

InitTransform ==
    \E index \in SeqUpTo(ReportLabels, MaxLabels), columns \in ReportColumns :
        /\ input = [op |-> "transform",
                    df |-> [index   |-> index,
                            columns |-> columns,
                            rows    |-> [i \in 1..Len(index) |->
                                           [c \in Range(columns) |-> "a"]]]]
        /\ conn = Connect(EmptyTables)
        /\ last = NoCall
        /\ run = NoRun

\* one call of transform_df on the drawn table
Transform ==
    /\ input.op = "transform"
    /\ last.op = "none"
    /\ \E empty_raises \in BOOLEAN :
         LET res == transform_df(input.df, empty_raises)
         IN  last' = [op |-> "transform", raised |-> res.raised, df |-> res.df]
    /\ UNCHANGED <<conn, input, run>>

NextTransform == Transform

SpecTransform == InitTransform /\ [][NextTransform]_vars

WellFormedLabel(label) ==
    \/ \E y \in ReportYears : label = AnnualLabel(y)
    \/ \E y \in ReportYears, n \in ReportQuarters : label = QuarterlyLabel(y, n)

\* C14: transform_df returns one row per input row in the input's order;
\* the row labelled "<year>" has that year and quarter 5, the row labelled
\* "<year>-Q<n>" has that year and quarter n; a table of one or more such
\* labels is always transformed.
C14_LabelsToYearQuarter ==
    (last.op = "transform") =>
        /\ (input.df.index # <<>> /\ \A i \in 1..Len(input.df.index) :
                                        WellFormedLabel(input.df.index[i]))
              => ~last.raised
        /\ ~last.raised =>
              /\ Len(last.df.rows) = Len(input.df.rows)
              /\ last.df.index = input.df.index
              /\ \A i \in 1..Len(input.df.index) :
                    /\ last.df.rows[i].amount = input.df.rows[i].amount
                    /\ \A y \in ReportYears :
                          /\ input.df.index[i] = AnnualLabel(y) =>
                                (last.df.rows[i].year = y /\ last.df.rows[i].quarter = 5)
                          /\ \A n \in ReportQuarters :
                                input.df.index[i] = QuarterlyLabel(y, n) =>
                                   (last.df.rows[i].year = y /\ last.df.rows[i].quarter = n)

\* C14 witness: an annual and a quarterly row of a table that brought its
\* own year column
C14_AnnualAndQuarterly ==
    /\ last.op = "transform"
    /\ ~last.raised
    /\ input.df.index = <<AnnualLabel(2022), QuarterlyLabel(2023, 3)>>
    /\ "year" \in Range(input.df.columns)
    /\ last.df.rows[1].quarter = 5
    /\ last.df.rows[2].year = 2023
    /\ last.df.rows[2].quarter = 3

\* C15: in the filter of daily_price, whose key holds date, an input row
\* whose date is the text of a day is not returned when the store holds a
\* row of the ticker with the parsed date of that day.
C15_TextDateMatchesStoredDate ==
    (last.op = "filter" /\ input.table_name = "daily_price") =>
        /\ ~last.raised
        /\ \A i \in 1..Len(input.df.rows) :
              LET r == input.df.rows[i]
              IN  (/\ r.date[1] = "str"
                   /\ \E p \in FilterPersisted :
                         p.ticker = r.ticker /\ p.date = <<"date", r.date[2]>>)
                     => \A j \in 1..Len(last.df.rows) :
                           last.df.rows[j].date[2] # r.date[2]

\* C15 witness: of two rows dated by text the one whose day is stored was
\* dropped and the other returned
C15_TextDateDropped ==
    /\ last.op = "filter"
    /\ input.table_name = "daily_price"
    /\ Len(input.df.rows) = 2
    /\ \A i \in 1..2 : input.df.rows[i].date[1] = "str"
    /\ \E p \in FilterPersisted : p.date = <<"date", input.df.rows[1].date[2]>>
    /\ Len(last.df.rows) = 1
    /\ last.df.rows[1].date[2] = input.df.rows[2].date[2]

\* ------------------------------------------- get_table_schemas_from_sql
\* A line of the DDL file is the sequence of its tokens; a token is a word
\* or a punctuation mark, a word bare, in `backticks` or in "double quotes".
W(w) == [q |-> "bare", w |-> w]

Backticked(w) == [q |-> "backtick", w |-> w]

DoubleQuoted(w) == [q |-> "double", w |-> w]

Marks == {"(", ")", ",", ";", "--"}

IsWord(tok) == tok.w \notin Marks

\* what the pattern `?(\w+)`? can match at a token: a bare or backticked word
MatchesName(tok) == IsWord(tok) /\ tok.q \in {"bare", "backtick"}

\* k.strip().replace('`', ''): backticks are removed, other quotes stay
StripBackticks(tok) == IF tok.q = "backtick" THEN W(tok.w) ELSE tok

\* str.upper() and re.IGNORECASE, on the words that the files of the model
\* write in lower case; no other word of the model has a lower-case keyword
\* as its upper-case form
Upper(w) ==
    CASE w = "create" -> "CREATE"
      [] w = "table" -> "TABLE"
      [] w = "if" -> "IF"
      [] w = "not" -> "NOT"
      [] w = "exists" -> "EXISTS"
      [] w = "primary" -> "PRIMARY"
      [] w = "key" -> "KEY"
      [] OTHER -> w

\* the token is the keyword, in either case
IsKeyword(tok, keyword) == tok.q = "bare" /\ Upper(tok.w) = keyword

\* 'PRIMARY KEY' in line.upper() and the like: the places where the two
\* words stand
KeywordAt(line, first, second) ==
    {i \in 1..(Len(line) - 1) :
        IsKeyword(line[i], first) /\ IsKeyword(line[i + 1], second)}

\* re.search(r'CREATE TABLE(?:\s+IF NOT EXISTS)?\s+`?(\w+)`?', line,
\* re.IGNORECASE) on a line that starts with CREATE TABLE: the position of
\* the word taken as the table's name, 0 when the pattern does not match.
\* When no name follows IF NOT EXISTS the optional group is given up and
\* the word after TABLE is the name.
CreateTableMatch(line) ==
    IF /\ Len(line) >= 6
       /\ IsKeyword(line[3], "IF") /\ IsKeyword(line[4], "NOT") /\ IsKeyword(line[5], "EXISTS")
       /\ MatchesName(line[6])
    THEN 6
    ELSE IF Len(line) >= 3 /\ MatchesName(line[3]) THEN 3
    ELSE 0

\* re.search(r'<first> <second>\s*\((.*?)\)', line): the tokens between the
\* parenthesis that follows the keyword and the next closing one, or "none"
KeyListMatch(line, first, second) ==
    LET starts == {i \in KeywordAt(line, first, second) :
                      /\ i + 2 <= Len(line)
                      /\ line[i + 2] = W("(")
                      /\ \E j \in (i + 3)..Len(line) : line[j] = W(")")}
    IN  IF starts = {} THEN [matched |-> FALSE, keys |-> <<>>]
        ELSE LET i      == CHOOSE x \in starts : \A y \in starts : x <= y
                 close  == CHOOSE j \in (i + 3)..Len(line) :
                              line[j] = W(")") /\ \A h \in (i + 3)..(j - 1) : line[h] # W(")")
                 inside == SubSeq(line, i + 3, close - 1)
                 names  == SelectSeq(inside, LAMBDA tok : tok # W(","))
             IN  [matched |-> TRUE,
                  keys    |-> [n \in 1..Len(names) |-> StripBackticks(names[n])]]

NotColumnWords == {"CONSTRAINT", "PRIMARY", "FOREIGN", "KEY"}

EmptyTableSchema == [columns |-> <<>>, primary_keys |-> <<>>, foreign_keys |-> <<>>]

\* lines 188-241: what one line does to the parser's state
parse_line(st, line) ==
    IF line = <<>> \/ line[1] = W("--") THEN st
    ELSE IF Len(line) >= 2 /\ IsKeyword(line[1], "CREATE") /\ IsKeyword(line[2], "TABLE")
    THEN LET at == CreateTableMatch(line)
         IN  IF at > 0
             THEN [table_schemas |->
                      [t \in DOMAIN st.table_schemas \cup {line[at].w} |->
                          IF t = line[at].w THEN EmptyTableSchema ELSE st.table_schemas[t]],
                   current_table |-> line[at].w,
                   in_table_definition |-> TRUE]
             ELSE st
    ELSE IF ~st.in_table_definition THEN st
    ELSE IF Len(line) >= 2 /\ line[1] = W(")") /\ line[2] = W(";")
    THEN [st EXCEPT !.in_table_definition = FALSE, !.current_table = None]
    ELSE IF KeywordAt(line, "PRIMARY", "KEY") # {}
    THEN LET pk_match == KeyListMatch(line, "PRIMARY", "KEY")
         IN  IF pk_match.matched
             THEN [st EXCEPT !.table_schemas[st.current_table].primary_keys = @ \o pk_match.keys]
             ELSE st
    ELSE IF KeywordAt(line, "FOREIGN", "KEY") # {}
    THEN LET fk_match == KeyListMatch(line, "FOREIGN", "KEY")
         IN  IF fk_match.matched
             THEN [st EXCEPT !.table_schemas[st.current_table].foreign_keys = @ \o fk_match.keys]
             ELSE st
    ELSE IF MatchesName(line[1]) /\ Upper(line[1].w) \notin NotColumnWords
    THEN [st EXCEPT !.table_schemas[st.current_table].columns = Append(@, W(line[1].w))]
    ELSE st

RECURSIVE parse_lines(_, _)
parse_lines(st, lines) ==
    IF lines = <<>> THEN st
    ELSE parse_lines(parse_line(st, Head(lines)), Tail(lines))

\* util.utility.get_table_schemas_from_sql: the schemas of the file's
\* tables, or None when the file cannot be opened (lines 243-248)
get_table_schemas_from_sql(file) ==
    IF ~file.openable THEN [none |-> TRUE, table_schemas |-> <<>>]
    ELSE [none |-> FALSE,
          table_schemas |-> parse_lines([table_schemas |-> <<>>,
                                         current_table |-> None,
                                         in_table_definition |-> FALSE],
                                        file.lines).table_schemas]

\* --------------------------------------- specification: schema catalog
MaxBodyLines == 3   \* lines between CREATE TABLE ... ( and );

\* the lines a table definition is made of; the comma that ends a line is
\* left out, no pattern of the parser looks at it
BodyLines ==
    {<<W("ticker"), W("VARCHAR")>>,
     <<Backticked("year"), W("INT")>>,
     <<DoubleQuoted("quarter"), W("INT")>>,
     <<W("ticker"), W("VARCHAR"), W("PRIMARY"), W("KEY")>>,
     <<W("ticker"), W("VARCHAR"), W("REFERENCES"), W("company"),
       W("("), W("ticker"), W(")")>>,
     <<W("PRIMARY"), W("KEY"), W("("), W("ticker"), W(")")>>,
     <<W("PRIMARY"), W("KEY"), W("("), W("ticker"), W(","), DoubleQuoted("quarter"), W(")")>>,
     <<W("FOREIGN"), W("KEY"), W("("), W("ticker"), W(")"), W("REFERENCES"),
       W("company"), W("("), W("ticker"), W(")")>>,
     <<W("CONSTRAINT"), W("uq"), W("UNIQUE"), W("("), W("ticker"), W(")")>>,
     <<W("--"), W("keys")>>}

CreateLines ==
    {<<W("CREATE"), W("TABLE"), W("cash_flow"), W("(")>>,
     <<W("CREATE"), W("TABLE"), W("IF"), W("NOT"), W("EXISTS"), W("cash_flow"), W("(")>>,
     <<W("CREATE"), W("TABLE"), DoubleQuoted("cash_flow"), W("(")>>}

CloseLine == <<W(")"), W(";")>>

\* the schema file: one that cannot be opened, or one table definition
SchemaFiles ==
    {[openable |-> FALSE, lines |-> <<>>]}
       \cup {[openable |-> TRUE, lines |-> <<create>> \o body \o <<CloseLine>>] :
                create \in CreateLines, body \in SeqUpTo(BodyLines, MaxBodyLines)}

\* ---- what the definition means to the database that executes the file
Body(file) == SubSeq(file.lines, 2, Len(file.lines) - 1)

ConstraintWords == {"CONSTRAINT", "PRIMARY", "FOREIGN", "UNIQUE", "CHECK"}

IsColumnLine(line) ==
    /\ line # <<>>
    /\ IsWord(line[1])
    /\ ~(line[1].q = "bare" /\ line[1].w \in ConstraintWords)

InlinePrimaryKey(line) ==
    IsColumnLine(line) /\ KeywordAt(line, "PRIMARY", "KEY") # {}

InlineReference(line) ==
    IsColumnLine(line) /\ \E i \in 2..Len(line) : line[i] = W("REFERENCES")

\* the names of the columns the definition declares
DeclaredColumns(file) ==
    {line[1].w : line \in {l \in Range(Body(file)) : IsColumnLine(l)}}

\* the names a table-level key clause lists
ListedKeys(line) ==
    IF IsColumnLine(line) \/ line = <<>> \/ line[1] = W("--") THEN {}
    ELSE LET open  == {i \in 1..Len(line) : line[i] = W("(")}
             first == CHOOSE i \in open : \A j \in open : i <= j
             close == CHOOSE j \in first..Len(line) :
                         line[j] = W(")") /\ \A h \in first..(j - 1) : line[h] # W(")")
         IN  IF open = {} THEN {}
             ELSE {line[i].w : i \in {x \in (first + 1)..(close - 1) : line[x] # W(",")}}

\* the database executes the file: no backticks, every column declared
\* once, at most one primary key, key clauses over declared columns
ValidDdl(file) ==
    /\ file.openable
    /\ \A i \in 1..Len(file.lines) :
          \A j \in 1..Len(file.lines[i]) : file.lines[i][j].q # "backtick"
    /\ DeclaredColumns(file) # {}
    /\ \A i, j \in 1..Len(Body(file)) :
          (IsColumnLine(Body(file)[i]) /\ IsColumnLine(Body(file)[j])
             /\ Body(file)[i][1].w = Body(file)[j][1].w) => i = j
    /\ Cardinality({i \in 1..Len(Body(file)) :
                       KeywordAt(Body(file)[i], "PRIMARY", "KEY") # {}}) <= 1
    /\ \A line \in Range(Body(file)) : ListedKeys(line) \subseteq DeclaredColumns(file)

InitCatalog ==
    \E file \in SchemaFiles :
        /\ input = [op |-> "catalog", file |-> file]
        /\ conn = Connect(EmptyTables)
        /\ last = NoCall
        /\ run = [pc |-> "startup", has_schema |-> FALSE,
                  db_schema |-> [none |-> TRUE, table_schemas |-> <<>>],
                  cause |-> "none"]

\* a call of get_table_schemas_from_sql on the file
ParseCall ==
    /\ input.op = "catalog"
    /\ last.op = "none"
    /\ run.pc = "startup"
    /\ last' = [op |-> "parse", result |-> get_table_schemas_from_sql(input.file)]
    /\ UNCHANGED <<conn, input, run>>

\* a mutant: a file that cannot be opened is passed over
create_table_skipping_missing_file(c, file) ==
    IF ~file.openable THEN [raised |-> FALSE, cause |-> "none", conn |-> c]
    ELSE IF ~ValidDdl(file)
    THEN [raised |-> TRUE, cause |-> "DatabaseError", conn |-> Abort(c)]
    ELSE [raised |-> FALSE, cause |-> "none", conn |-> Commit(c)]

\* DBInterface._create_table: open the file, execute it, commit
create_table(c, file) ==
    IF ~file.openable THEN [raised |-> TRUE, cause |-> "OSError", conn |-> c]
    ELSE IF ~ValidDdl(file)
    THEN [raised |-> TRUE, cause |-> "DatabaseError", conn |-> Abort(c)]
    ELSE [raised |-> FALSE, cause |-> "none", conn |-> Commit(c)]

\* DataOrchestrator.__init__: DBInterface(db_url, db_schema_file) connects
\* and calls _create_table, an exception of which leaves the constructor;
\* then the schemas are read from the file
Construct ==
    /\ input.op = "catalog"
    /\ run.pc = "startup"
    /\ LET created == create_table(conn, input.file)
       IN  /\ conn' = created.conn
           /\ run' = IF created.raised
                     THEN [run EXCEPT !.pc = "aborted", !.cause = created.cause]
                     ELSE [run EXCEPT !.pc = "constructed",
                                      !.has_schema = TRUE,
                                      !.db_schema = get_table_schemas_from_sql(input.file)]
    /\ UNCHANGED <<input, last>>

\* DataOrchestrator.run is entered: lines 140-162, up to the fetch loop
BeginRun ==
    /\ input.op = "catalog"
    /\ run.pc = "constructed"
    /\ run' = [run EXCEPT !.pc = "fetch"]
    /\ UNCHANGED <<conn, input, last>>

NextCatalog == ParseCall \/ Construct \/ BeginRun

SpecCatalog == InitCatalog /\ [][NextCatalog]_vars

\* C16: in what get_table_schemas_from_sql returns for a file the database
\* accepts, the primary-key names and the foreign-key names of every table
\* are among its column names.
C16_KeysAmongColumns ==
    (last.op = "parse" /\ ValidDdl(input.file)) =>
        \A t \in DOMAIN last.result.table_schemas :
            LET schema == last.result.table_schemas[t]
            IN  /\ Range(schema.primary_keys) \subseteq Range(schema.columns)
                /\ Range(schema.foreign_keys) \subseteq Range(schema.columns)

\* C17: in what get_table_schemas_from_sql returns for a file the database
\* accepts, the column of a line with an inline PRIMARY KEY is among the
\* table's columns and primary keys, and the column of a line with an
\* inline REFERENCES is among its columns and foreign keys.
C17_InlineKeysParsed ==
    (last.op = "parse" /\ ValidDdl(input.file)
        /\ "cash_flow" \in DOMAIN last.result.table_schemas) =>
        LET schema == last.result.table_schemas["cash_flow"]
        IN  \A line \in Range(Body(input.file)) :
               /\ InlinePrimaryKey(line) =>
                     /\ W(line[1].w) \in Range(schema.columns)
                     /\ W(line[1].w) \in Range(schema.primary_keys)
               /\ InlineReference(line) =>
                     /\ W(line[1].w) \in Range(schema.columns)
                     /\ W(line[1].w) \in Range(schema.foreign_keys)

LoadWrites == last.op = "dump" \/ (last.df.rows # <<>> /\ last.df.columns # <<>>)

\* C19: a call of dump_data_to_db, or of upsert_data_to_db with rows, that
\* returns has called commit once, with every row of the call written: the
\* rows are in the committed table and no transaction is left open.  A call
\* of upsert_data_to_db without rows returns with the connection untouched.
C19_OneCommitPerLoad ==
    (last.op \in {"dump", "upsert"} /\ ~last.raised) =>
        IF LoadWrites
        THEN /\ conn.commits = last.pre.commits + 1
             /\ conn.status = "IDLE"
             /\ conn.view = conn.tables
             /\ Range(CopyRows(db_schema[last.table_name].columns, last.df))
                   \subseteq conn.tables[last.table_name]
        ELSE conn = last.pre

\* C19 witness: an upsert of two rows, made in the transaction a SELECT had
\* opened, returned after its one commit
C19_TwoRowsOneCommit ==
    /\ last.op = "upsert"
    /\ ~last.raised
    /\ Len(last.df.rows) = 2
    /\ last.pre.status = "INTRANS"
    /\ conn.commits = last.pre.commits + 1
    /\ conn.status = "IDLE"

\* C19 as stated: every load call that returns has called commit exactly once.
C19_ExactlyOneCommit ==
    (last.op \in {"dump", "upsert"} /\ ~last.raised) =>
        conn.commits = last.pre.commits + 1

\* the (ticker, table) pairs of the datasets of the listing
AllPairs ==
    UNION {{<<listings[n], k>> : k \in Range(run.stock_data_list[n].keys)} :
              n \in 1..Len(run.stock_data_list)}

LoadsOf(k) == {j \in 1..Len(run.loads) : run.loads[j].table_name = k}

\* C20: in run a load is issued only when every ticker of the listing has
\* been fetched and each of its tables has gone through the filter and the
\* accumulation; no table is loaded twice, and a run that ends has loaded
\* each table of the batch once.
C20_LoadsAfterAccumulation ==
    input.op = "run" =>
        /\ run.loads # <<>> =>
              /\ run.pc \in {"dump", "done", "crashed"}
              /\ Len(run.stock_data_list) = Len(listings)
              /\ \A n \in 1..Len(listings) : run.stock_data_list[n].ticker = listings[n]
              /\ run.filtered = AllPairs
        /\ \A k \in TableNames : Cardinality(LoadsOf(k)) <= 1
        /\ \A j \in 1..Len(run.loads) : run.loads[j].table_name \in Range(run.key_order)
        /\ run.pc = "done" =>
              \A k \in Range(run.key_order) : Cardinality(LoadsOf(k)) = 1

\* C20 witness: a run ended with both tables loaded, after the four pairs
\* had gone through the filter, one of them skipped
C20_RunEndedAllLoaded ==
    /\ input.op = "run"
    /\ run.pc = "done"
    /\ Len(run.loads) = 2
    /\ run.filtered = AllPairs
    /\ run.skipped # {}

\* the table the loading takes for k: the frame of the batch, none when the
\* batch has no key k
LoadBatch(k) ==
    IF k \in DOMAIN run.tables_to_dump THEN Range(run.tables_to_dump[k].rows) ELSE {}

\* the rows the filter returned for the tickers' tables k
FilteredRows(k) ==
    UNION {Range(res.rows) : res \in {x \in run.results : x.table_name = k}}

\* C21: when the loading begins, the batch of every table holds exactly the
\* rows that the filter returned for that table over the tickers of the
\* run: none of them is missing, and no other row is in it.
C21_BatchIsUnionOfFiltered ==
    (input.op = "run" /\ run.pc = "dump") =>
        \A k \in TableNames : LoadBatch(k) = FilteredRows(k)

\* the tickers the fetch loop has come to
Processed == {listings[n] : n \in 1..Len(run.stock_data_list)}

\* the dataset the run holds for a ticker of Processed
DatasetOf(ticker) ==
    run.stock_data_list[CHOOSE n \in 1..Len(run.stock_data_list) : listings[n] = ticker]

\* the number of calls of _fetch_data_worker made for the ticker
FetchCallsOf(ticker) ==
    Cardinality({j \in 1..Len(run.fetch_calls) : run.fetch_calls[j] = ticker})

\* C22: with load_from_file, a ticker is fetched exactly when its folder of
\* the day is missing or does not hold exactly 6 files; a folder of exactly
\* 6 files gives the dataset from its files alone, with no fetch.
C22_FetchIffFolderIncomplete ==
    (input.op = "run" /\ input.load_from_file) =>
        \A ticker \in Processed :
            LET folder == input.folders[ticker]
            IN  IF folder.exists /\ folder.count = 6
                THEN /\ FetchCallsOf(ticker) = 0
                     /\ DatasetOf(ticker) = [ticker |-> ticker, keys |-> folder.keys]
                ELSE FetchCallsOf(ticker) = 1

\* C22 witness: one ticker was read from its six files, the other, whose
\* folder holds seven, was fetched
C22_OneReadOneFetched ==
    /\ input.op = "run"
    /\ input.load_from_file
    /\ run.pc = "accumulate"
    /\ input.folders["ACB"].count = 6
    /\ input.folders["MBB"].count = 7
    /\ run.fetch_calls = <<"MBB">>
    /\ run.stock_data_list[1].keys = input.folders["ACB"].keys

\* C23: a run that ends leaves the quarters table with exactly the five
\* rows 1, 2, 3, 4, 5, and a run that found five rows in it issued no write
\* to it.
C23_QuartersSeededOnce ==
    input.op = "run" =>
        /\ run.pc = "done" => conn.tables["quarters"] = Range(prepare_quarter_table)
        /\ Cardinality(input.tables["quarters"]) = 5 =>
              /\ LoadsOf("quarters") = {}
              /\ conn.view["quarters"] = input.tables["quarters"]

\* --------------------------------------------------- fixed_delay_api_call
\* range(3): the attempts of fixed_delay_api_call
Attempts == 3

\* what a call of the wrapped function does: it raises an Exception or
\* returns a value, a frame or None
Raises == "raise"

CallOutcomes == {Raises, None, "df1", "df2"}

\* a mutant: a success does not leave the loop
attempt_without_break(st, outcome, elapsed) ==
    IF outcome = Raises
    THEN [st EXCEPT !.i = @ + 1, !.calls = @ + 1,
                    !.sleeps = IF st.i < 2 THEN Append(@, [kind |-> "long", after |-> st.i + 1, seconds |-> 60])
                               ELSE @]
    ELSE [st EXCEPT !.i = @ + 1, !.calls = @ + 1, !.value = outcome,
                    !.sleeps = Append(@, [kind |-> "short", after |-> st.i + 1,
                                           seconds |-> IF elapsed - 1 > 0 THEN elapsed ELSE 1])]

\* lines 265-278, one pass of the loop with i = st.i: the call, then the
\* sleep; elapsed is the time the call took, in seconds; the long sleep
\* is written without its random part of up to 5 seconds
attempt(st, outcome, elapsed) ==
    IF outcome = Raises
    THEN \* except Exception: logged, the long sleep unless it was the last pass
         [st EXCEPT !.i = @ + 1, !.calls = @ + 1,
                    !.sleeps = IF st.i < 2 THEN Append(@, [kind |-> "long", after |-> st.i + 1, seconds |-> 60])
                               ELSE @]
    ELSE \* else: sleep diff + 1 or 1 second, then break
         [st EXCEPT !.i = Attempts, !.calls = @ + 1, !.value = outcome,
                    !.sleeps = Append(@, [kind |-> "short", after |-> st.i + 1,
                                           seconds |-> IF elapsed - 1 > 0 THEN elapsed ELSE 1])]

\* --------------------------------- specification: fixed_delay_api_call
InitRetry ==
    \E outcomes \in [1..Attempts -> CallOutcomes] :
        /\ conn = Connect(EmptyTables)
        /\ input = [op |-> "retry", outcomes |-> outcomes]
        /\ last = NoCall
        /\ run = [pc |-> "loop", i |-> 0, calls |-> 0, value |-> None, sleeps |-> <<>>]

\* one pass of for i in range(3); the call behaves as the next outcome says
Attempt ==
    /\ input.op = "retry"
    /\ run.pc = "loop"
    /\ run.i < Attempts
    /\ \E elapsed \in {0, 2} :
          run' = attempt(run, input.outcomes[run.calls + 1], elapsed)
    /\ UNCHANGED <<conn, input, last>>

\* line 280: return value
ReturnValue ==
    /\ input.op = "retry"
    /\ run.pc = "loop"
    /\ run.i >= Attempts
    /\ run' = [run EXCEPT !.pc = "returned"]
    /\ last' = [op |-> "fixed_delay_api_call", raised |-> FALSE, value |-> run.value]
    /\ UNCHANGED <<conn, input>>

NextRetry == Attempt \/ ReturnValue

SpecRetry == InitRetry /\ [][NextRetry]_vars

\* the attempts that succeed
Successes == {n \in 1..Attempts : input.outcomes[n] # Raises}

\* C24: fixed_delay_api_call calls the function at least once and at most 3
\* times, stops at the first success and returns its value, returns None
\* when the three attempts raise, raises nothing, and sleeps the long delay
\* exactly after a failed first or second attempt.
C24_RetryAtMostThreeTimes ==
    input.op = "retry" =>
        /\ run.calls <= 3
        /\ \A n \in Successes : run.calls <= n
        /\ \A j \in 1..Len(run.sleeps) :
              run.sleeps[j].kind = "long" =>
                 /\ input.outcomes[run.sleeps[j].after] = Raises
                 /\ run.sleeps[j].after < 3
        /\ run.pc = "returned" =>
              /\ run.calls >= 1
              /\ ~last.raised
              /\ IF Successes = {}
                 THEN run.calls = 3 /\ last.value = None
                 ELSE LET first == CHOOSE n \in Successes : \A k \in Successes : n <= k
                      IN  run.calls = first /\ last.value = input.outcomes[first]
              /\ \A n \in 1..run.calls :
                    (input.outcomes[n] = Raises /\ n < run.calls) =>
                        \E j \in 1..Len(run.sleeps) :
                           run.sleeps[j] = [kind |-> "long", after |-> n, seconds |-> 60]
              /\ Cardinality({j \in 1..Len(run.sleeps) : run.sleeps[j].kind = "long"})
                    = Cardinality({n \in 1..run.calls : input.outcomes[n] = Raises /\ n < 3})

\* C24 witness: two attempts raised, the third returned a frame after two
\* long sleeps
C24_ThirdAttemptSucceeded ==
    /\ input.op = "retry"
    /\ run.pc = "returned"
    /\ input.outcomes = <<Raises, Raises, "df1">>
    /\ run.calls = 3
    /\ last.value = "df1"
    /\ Len(run.sleeps) = 3

\* -------------------------------------------------- FinanceAPI.build_dict
\* what a call of one of the _get_company_* functions does: it raises
\* RateLimitExceeded, raises another Exception, or returns its frame
ApiOutcomes == {"rate_limit", Raises, "frame"}

\* FinanceApi._fixed_delay_api_call: the call, and after an exception a
\* sleep and one more call, made inside the except clause, where nothing
\* catches what it raises
fixed_delay_api_call(first, second) ==
    IF first = "frame" THEN [raised |-> FALSE, value |-> "frame", attempt |-> 1]
    ELSE IF second = "frame" THEN [raised |-> FALSE, value |-> "frame", attempt |-> 2]
    ELSE [raised |-> TRUE, value |-> None, attempt |-> 2]

\* two calls of build_dict on one FinanceAPI object, each for its ticker
BuildCalls == {1, 2}

BuildTicker(c) == listings[c]

\* a dict that no call has created yet
NoDict == [ticker |-> None, datasets |-> {}]

\* a mutant: the mapping is an attribute of the object, which every call
\* binds anew and every fetch looks up when it stores its result
response_of_object(st, c) == st.newest

\* the dict that the name response denotes in call c: the one the call
\* created at line 171, a local of the call
response(st, c) == c

\* --------------------------------------------- specification: build_dict
InitBuild ==
    /\ conn = Connect(EmptyTables)
    /\ input = [op |-> "build"]
    /\ last = NoCall
    /\ run = [pc |-> "build",
              threads |-> [c \in BuildCalls |->
                             [pc |-> "idle", i |-> 1, result |-> 0, returned |-> NoDict]],
              dicts |-> [c \in BuildCalls |-> NoDict],
              newest |-> 0]

\* lines 160-171: the call starts and creates its mapping {"ticker": ticker}
BuildBegin(c) ==
    /\ input.op = "build"
    /\ run.threads[c].pc = "idle"
    /\ run' = [run EXCEPT !.threads[c].pc = "fetching",
                          !.dicts[c] = [ticker |-> BuildTicker(c), datasets |-> {}],
                          !.newest = c]
    /\ UNCHANGED <<conn, input, last>>

\* lines 173-174, one pass of the loop: the dataset is fetched and stored
\* under its key; an exception of the wrapper leaves build_dict
FetchDataset(c) ==
    /\ input.op = "build"
    /\ run.threads[c].pc = "fetching"
    /\ run.threads[c].i <= Len(functions_to_call)
    /\ \E first \in ApiOutcomes, second \in ApiOutcomes :
          LET key == functions_to_call[run.threads[c].i]
              res == fixed_delay_api_call(first, second)
              d   == response(run, c)
          IN  /\ last' = [op |-> "_fixed_delay_api_call", call |-> c, key |-> key,
                          first |-> first, second |-> second,
                          raised |-> res.raised, value |-> res.value]
              /\ IF res.raised
                 THEN run' = [run EXCEPT !.threads[c].pc = "raised"]
                 ELSE run' = [run EXCEPT
                         !.threads[c].i = @ + 1,
                         !.dicts[d].datasets =
                             {x \in @ : x.key # key}
                             \cup {[key |-> key, value |-> res.value, call |-> c,
                                    ticker |-> BuildTicker(c), attempt |-> res.attempt]}]
    /\ UNCHANGED <<conn, input>>

\* line 175: return response
BuildReturn(c) ==
    /\ input.op = "build"
    /\ run.threads[c].pc = "fetching"
    /\ run.threads[c].i > Len(functions_to_call)
    /\ LET d == response(run, c)
       IN  run' = [run EXCEPT !.threads[c].pc = "returned",
                              !.threads[c].result = d,
                              !.threads[c].returned = run.dicts[d]]
    /\ UNCHANGED <<conn, input, last>>

NextBuild == \E c \in BuildCalls : BuildBegin(c) \/ FetchDataset(c) \/ BuildReturn(c)

SpecBuild == InitBuild /\ [][NextBuild]_vars

\* C25: the mapping that build_dict returns for a ticker bears that ticker
\* and holds the datasets that this call fetched, one per key and no other,
\* however the steps of two calls on one object interleave; after the
\* return no fetch changes it.
C25_ResponseLocalToCall ==
    input.op = "build" =>
        \A c \in BuildCalls :
            run.threads[c].pc = "returned" =>
                LET got == run.threads[c].returned
                IN  /\ got.ticker = BuildTicker(c)
                    /\ \A x \in got.datasets : x.call = c /\ x.ticker = BuildTicker(c)
                    /\ {x.key : x \in got.datasets} = Range(functions_to_call)
                    /\ run.dicts[run.threads[c].result] = got

\* C25 witness: call 2 began first and is still fetching, call 1 began
\* after it and has returned its mapping, one dataset of it from a retry
C25_ReturnedWhileOtherFetches ==
    /\ input.op = "build"
    /\ run.newest = 1
    /\ run.threads[1].pc = "returned"
    /\ run.threads[2].pc = "fetching" /\ run.threads[2].i = 2
    /\ \E x \in run.threads[1].returned.datasets : x.attempt = 2

\* C28: _fixed_delay_api_call raises nothing: it returns the frame, or None
\* when the call and the retry both failed, and build_dict is not left by
\* an exception of it.
C28_WrapperNeverRaises ==
    input.op = "build" =>
        /\ last.op = "_fixed_delay_api_call" =>
              /\ ~last.raised
              /\ (last.first # "frame" /\ last.second # "frame") => last.value = None
        /\ \A c \in BuildCalls : run.threads[c].pc # "raised"

\* ------------------------------------- specification: scan of the DDL lines
MaxScanLines == 4

\* the lines of the scanned files: three CREATE TABLE lines (plain; lower
\* case with IF NOT EXISTS and a backticked name; a double-quoted name, the
\* quoting of the database), the closing line, column lines, a key line
\* and a constraint line
ScanLines ==
    {<<W("CREATE"), W("TABLE"), W("a"), W("(")>>,
     <<W("create"), W("table"), W("if"), W("not"), W("exists"), Backticked("b"), W("(")>>,
     <<W("CREATE"), W("TABLE"), DoubleQuoted("c"), W("(")>>,
     CloseLine,
     <<W("x"), W("INT")>>,
     <<Backticked("y"), W("INT")>>,
     <<W("primary"), W("key"), W("("), W("x"), W(")")>>,
     <<W("CONSTRAINT"), W("uq"), W("UNIQUE"), W("("), W("x"), W(")")>>}

ScanFiles == {[openable |-> TRUE, lines |-> lines] : lines \in SeqUpTo(ScanLines, MaxScanLines)}

InitScan ==
    \E file \in ScanFiles :
        /\ input = [op |-> "scan", file |-> file]
        /\ conn = Connect(EmptyTables)
        /\ last = NoCall
        /\ run = [pc |-> "scan", n |-> 0,
                  st |-> [table_schemas |-> <<>>, current_table |-> None,
                          in_table_definition |-> FALSE]]

\* one pass of for line in f (lines 186-241)
ScanLine ==
    /\ input.op = "scan"
    /\ run.pc = "scan"
    /\ run.n < Len(input.file.lines)
    /\ run' = [run EXCEPT !.n = @ + 1,
                          !.st = parse_line(@, input.file.lines[run.n + 1])]
    /\ UNCHANGED <<conn, input, last>>

\* line 250: return table_schemas
ScanReturn ==
    /\ input.op = "scan"
    /\ run.pc = "scan"
    /\ run.n = Len(input.file.lines)
    /\ run' = [run EXCEPT !.pc = "returned"]
    /\ last' = [op |-> "parse", result |-> [none |-> FALSE,
                                            table_schemas |-> run.st.table_schemas]]
    /\ UNCHANGED <<conn, input>>

NextScan == ScanLine \/ ScanReturn

SpecScan == InitScan /\ [][NextScan]_vars

\* ---- what the lines say, read without the parser
\* a CREATE TABLE line, in either case
IsCreateLine(line) ==
    Len(line) >= 3 /\ IsKeyword(line[1], "CREATE") /\ IsKeyword(line[2], "TABLE")

\* the name of the table the line creates, after an optional IF NOT
\* EXISTS, bare or quoted
CreatedName(line) ==
    IF Len(line) >= 6 /\ IsKeyword(line[3], "IF") /\ IsKeyword(line[4], "NOT")
          /\ IsKeyword(line[5], "EXISTS")
    THEN line[6].w ELSE line[3].w

\* the CREATE TABLE line that is open after the first n lines: the most
\* recent one with no closing line after it; 0 when there is none
OpenAt(n) ==
    LET lines  == input.file.lines
        marks  == {j \in 1..n : IsCreateLine(lines[j]) \/ lines[j] = CloseLine}
        newest == CHOOSE j \in marks : \A k \in marks : k <= j
    IN  IF marks = {} THEN 0
        ELSE IF IsCreateLine(lines[newest]) THEN newest ELSE 0

\* the line is a column line: it starts with a name, bare or backticked,
\* that is none of the reserved words, and holds no table-level key
IsPlainColumnLine(line) ==
    /\ ~IsCreateLine(line) /\ line # CloseLine
    /\ MatchesName(line[1])
    /\ Upper(line[1].w) \notin {"CONSTRAINT", "PRIMARY", "FOREIGN", "KEY"}
    /\ KeywordAt(line, "PRIMARY", "KEY") = {}
    /\ KeywordAt(line, "FOREIGN", "KEY") = {}

\* the CREATE TABLE lines of the first n lines that create table t
CreatesOf(t, n) ==
    {j \in 1..n : IsCreateLine(input.file.lines[j]) /\ CreatedName(input.file.lines[j]) = t}

\* the column names of the lines that belong to the CREATE TABLE line at
\* position c, among the first n lines, in file order
ColumnsUnder(c, n) ==
    LET lines == input.file.lines
        mine(j) == OpenAt(j - 1) = c /\ IsPlainColumnLine(lines[j])
        picked == SelectSeq([j \in 1..n |-> j], mine)
    IN  [i \in 1..Len(picked) |-> W(lines[picked[i]][1].w)]

\* C26: after any number of lines, the tables of the result are those that
\* a CREATE TABLE line has named, and the columns of each are the names of
\* the column lines that stand under its most recent CREATE TABLE line
\* while it was open, in file order; a line outside an open definition and
\* a line whose first word is CONSTRAINT, PRIMARY, FOREIGN or KEY adds no
\* column.
C26_LinesGoToOpenTable ==
    input.op = "scan" =>
        LET lines  == input.file.lines
            tables == run.st.table_schemas
        IN  /\ DOMAIN tables = {CreatedName(lines[j]) :
                                   j \in {k \in 1..run.n : IsCreateLine(lines[k])}}
            /\ \A t \in DOMAIN tables :
                  LET creates == CreatesOf(t, run.n)
                      c == CHOOSE j \in creates : \A k \in creates : k <= j
                  IN  creates # {} => tables[t].columns = ColumnsUnder(c, run.n)
            /\ \A t \in DOMAIN tables :
                  \A i \in 1..Len(tables[t].columns) :
                     Upper(tables[t].columns[i].w)
                        \notin {"CONSTRAINT", "PRIMARY", "FOREIGN", "KEY"}

\* the year and the quarter that a label of the provider stands for
LabelMeans(label, year, quarter) ==
    \/ \E y \in ReportYears : label = AnnualLabel(y) /\ year = y /\ quarter = 5
    \/ \E y \in ReportYears, n \in ReportQuarters :
          label = QuarterlyLabel(y, n) /\ year = y /\ quarter = n

\* C27: the table that transform_df returns has no report_period column,
\* one year and one quarter column, and in every row these hold the year
\* and quarter of the row's label, whether or not the input had columns of
\* these names; the other columns are as they were.
C27_PeriodColumnsReplaced ==
    (input.op = "transform" /\ last.op = "transform" /\ ~last.raised) =>
        /\ "report_period" \notin Range(last.df.columns)
        /\ \A c \in {"year", "quarter"} :
              Cardinality({i \in 1..Len(last.df.columns) : last.df.columns[i] = c}) = 1
        /\ Len(last.df.rows) = Len(input.df.index)
        /\ \A i \in 1..Len(last.df.rows) :
              /\ LabelMeans(input.df.index[i], last.df.rows[i].year, last.df.rows[i].quarter)
              /\ \A c \in Range(input.df.columns) \ Range(drop_columns) :
                    c \in Range(last.df.columns) /\ last.df.rows[i][c] = input.df.rows[i][c]

\* C27 witness: a table with a year and a report_period column of its own
\* was transformed; the year of its first row is the label's
C27_ExistingYearOverwritten ==
    /\ input.op = "transform"
    /\ last.op = "transform" /\ ~last.raised
    /\ {"year", "report_period"} \subseteq Range(input.df.columns)
    /\ Len(input.df.index) = 2
    /\ input.df.rows[1].year = "a"
    /\ input.df.index[1] = QuarterlyLabel(2022, 3)
    /\ last.df.rows[1].year = 2022 /\ last.df.rows[1].quarter = 3

\* C29: a call of upsert_data_to_db without rows returns inserted = 0 and
\* updated = 0, and a call with rows and an empty key list raises; either
\* leaves the connection, its transaction, its temporary tables and the
\* tables as they were.
C29_EarlyExitsTouchNothing ==
    (input.op = "loader" /\ last.op = "upsert") =>
        /\ ("none" \in DOMAIN last.df \/ last.df.rows = <<>>) =>
              /\ ~last.raised
              /\ last.result = [inserted |-> 0, updated |-> 0]
              /\ ~last.created
              /\ conn = last.pre
        /\ (last.df.rows # <<>> /\ last.primary_keys = <<>>) =>
              /\ last.raised
              /\ ~last.created
              /\ conn = last.pre

\* C29 witness: a call with one row or more and no key was made in the
\* transaction that a SELECT had opened, and raised
C29_NoKeysRaisedInTransaction ==
    /\ input.op = "loader"
    /\ last.op = "upsert"
    /\ last.df.rows # <<>>
    /\ last.primary_keys = <<>>
    /\ last.raised
    /\ last.pre.status = "INTRANS"

\* the connection has been closed once, when every table of the batch
\* had been loaded and committed
ClosedAfterLastCommit ==
    /\ run.closes <= 1
    /\ (conn.status = "CLOSED") = (run.closes = 1)
    /\ run.closes = 1 => run.pc = "done"
    /\ run.pc = "done" =>
          /\ run.closes = 1
          /\ Len(run.loads) = Len(run.key_order)
          /\ \A j \in 1..Len(run.loads) : run.loads[j].committed
          /\ conn.commits = Len(run.loads)
          /\ conn.view = conn.tables

\* C30: a run that completes has closed the connection exactly once, after
\* the commit of its last load, and no step of run is taken on a closed
\* connection.
C30_ClosedOnceAtEnd ==
    /\ [](input.op = "run" => ClosedAfterLastCommit)
    /\ [][input.op = "run" => conn.status # "CLOSED"]_vars

\* C30 witness: the run completed, two loads committed, the connection closed
C30_RunCompletedAndClosed ==
    /\ input.op = "run"
    /\ run.pc = "done"
    /\ Len(run.loads) = 2
    /\ conn.commits = 2
    /\ conn.status = "CLOSED"
    /\ run.closes = 1

====
